---- MODULE Spec2Model ----
(***************************************************************************)
(* Behaviour-tree engine of BehaviorTree/BehaviorTree.py: the node state   *)
(* machine, Sequence/Selector evaluation, the process-wide tick session    *)
(* tracker, the snapshot builder and BehaviorTree.tick().                  *)
(*                                                                         *)
(* A tree-level tick is a synchronous call tree.  It is modelled in the    *)
(* phases of BehaviorTree.tick(): begin (tracker reset, builder reset),    *)
(* execute (root.tick(), the whole recursive descent), collect/record and  *)
(* publish.  pc names the phase the one tick in flight has reached.        *)
(***************************************************************************)
EXTENDS Integers, Sequences, FiniteSets, TLC

\* ------------------------------------------------------------------ bounds
\* BT_TICK_ID is unbounded in the code; ticks are started while it is below this.
MaxTicks == 3
\* time.perf_counter() is monotonic and unbounded; leaf operations take time while
\* the reading stays within MaxClock units.
MaxClock == 2
\* A consumer may call get_snapshot() any number of times; consecutive reads are
\* counted up to this many between two steps of a tick.
MaxReads == 2

\* ------------------------------------------------------------ NodeState
SUCCESS == 1
FAILURE == 2
RUNNING == 3
\* Not a NodeState: the call was left by NotImplementedError instead of returning.
Raised == 4
\* Python's None: the unset last_state, an Action that returns nothing, a missing root.
None == 0

NodeState == {SUCCESS, FAILURE, RUNNING}

\* enum_state.name if enum_state is not None else "None"
StateName(s) ==
    IF s = SUCCESS THEN "SUCCESS"
    ELSE IF s = FAILURE THEN "FAILURE"
    ELSE IF s = RUNNING THEN "RUNNING"
    ELSE "None"

\* ------------------------------------------------------------ tree shapes
\* A shape is a forest of nodes 1..N: the class of each node, its ordered child
\* list, its name, and the root each BehaviorTree instance starts with.
\* "Condition" and "Action" stand for any subclass that overrides condition() /
\* action(); what the operation returns is an input of each tick.
Shapes == <<
    \* 1: Sequence[A, B, C]
    [ kind     |-> <<"Sequence", "Action", "Action", "Action">>,
      children |-> << <<2, 3, 4>>, <<>>, <<>>, <<>> >>,
      name     |-> <<"ROOT", "A", "B", "C">>,
      roots    |-> <<1>> ],
    \* 2: Selector[P?, A, B]
    [ kind     |-> <<"Selector", "Condition", "Action", "Action">>,
      children |-> << <<2, 3, 4>>, <<>>, <<>>, <<>> >>,
      name     |-> <<"ROOT", "P", "A", "B">>,
      roots    |-> <<1>> ],
    \* 3: Selector[P?, Sequence[A, B]]
    [ kind     |-> <<"Selector", "Condition", "Sequence", "Action", "Action">>,
      children |-> << <<2, 3>>, <<>>, <<4, 5>>, <<>>, <<>> >>,
      name     |-> <<"ROOT", "P", "Work", "A", "B">>,
      roots    |-> <<1>> ],
    \* 4: Sequence[Selector[P?, A], B, Sequence[]]
    [ kind     |-> <<"Sequence", "Selector", "Condition", "Action", "Action", "Sequence">>,
      children |-> << <<2, 5, 6>>, <<3, 4>>, <<>>, <<>>, <<>>, <<>> >>,
      name     |-> <<"ROOT", "Pick", "P", "A", "B", "Empty">>,
      roots    |-> <<1>> ],
    \* 5: Selector[Selector[], Sequence[P?, Q?]]
    [ kind     |-> <<"Selector", "Selector", "Sequence", "Condition", "Condition">>,
      children |-> << <<2, 3>>, <<>>, <<4, 5>>, <<>>, <<>> >>,
      name     |-> <<"ROOT", "Nothing", "Both", "P", "Q">>,
      roots    |-> <<1>> ],
    \* 6: a lone Condition as root
    [ kind     |-> <<"Condition">>,
      children |-> << <<>> >>,
      name     |-> <<"P">>,
      roots    |-> <<1>> ],
    \* 7: HandleLoading with the leaf classes of BehaviorTree/Nodes:
    \*    Sequence[IsLoadingScreen(), WaitLoading()]
    [ kind     |-> <<"Sequence", "IsLoadingScreen", "WaitLoading">>,
      children |-> << <<2, 3>>, <<>>, <<>> >>,
      name     |-> <<"HandleLoading", "IsLoadingScreen", "WaitLoading">>,
      roots    |-> <<1>> ],
    \* 8: Selector[MapNotReady(), Sequence[P?, MoveToOffset(), A], WaitLoading()]
    [ kind     |-> <<"Selector", "MapNotReady", "Sequence", "Condition", "MoveToOffset",
                     "Action", "WaitLoading">>,
      children |-> << <<2, 3, 7>>, <<>>, <<4, 5, 6>>, <<>>, <<>>, <<>>, <<>> >>,
      name     |-> <<"ROOT", "MapNotReady", "Follow", "P", "MoveToOffset", "A",
                     "WaitLoading">>,
      roots    |-> <<1>> ],
    \* 9: Sequence[A, X, B] where X is a Condition whose condition() is not overridden
    [ kind     |-> <<"Sequence", "Action", "BaseCondition", "Action">>,
      children |-> << <<2, 3, 4>>, <<>>, <<>>, <<>> >>,
      name     |-> <<"ROOT", "A", "X", "B">>,
      roots    |-> <<1>> ],
    \* 10: Selector[P?, X, B] where X is a base Node
    [ kind     |-> <<"Selector", "Condition", "Node", "Action">>,
      children |-> << <<2, 3, 4>>, <<>>, <<>>, <<>> >>,
      name     |-> <<"ROOT", "P", "X", "B">>,
      roots    |-> <<1>> ],
    \* 11: Selector[Sequence[A, X], B] where X is an Action whose action() is not
    \*     overridden
    [ kind     |-> <<"Selector", "Sequence", "Action", "BaseAction", "Action">>,
      children |-> << <<2, 5>>, <<3, 4>>, <<>>, <<>>, <<>> >>,
      name     |-> <<"ROOT", "Work", "A", "X", "B">>,
      roots    |-> <<1>> ],
    \* 12: two BehaviorTree instances in one process, each with its own tree:
    \*     Sequence[A] and Selector[P?, B]
    [ kind     |-> <<"Sequence", "Action", "Selector", "Condition", "Action">>,
      children |-> << <<2>>, <<>>, <<4, 5>>, <<>>, <<>> >>,
      name     |-> <<"Work", "A", "Pick", "P", "B">>,
      roots    |-> <<1, 3>> ],
    \* 13: Sequence[A, Selector[P?, B]] whose owner has given every child a `parent`
    \*     attribute (the engine classes set none)
    [ kind     |-> <<"Sequence", "Action", "Selector", "Condition", "Action">>,
      children |-> << <<2, 3>>, <<>>, <<4, 5>>, <<>>, <<>> >>,
      name     |-> <<"ROOT", "A", "Pick", "P", "B">>,
      parent   |-> <<0, 1, 1, 3, 3>>,
      roots    |-> <<1>> ],
    \* 14: one tree, Sequence[A, B], behind two BehaviorTree instances (every
    \*     BehaviorTree() starts with root = BT_ROOT)
    [ kind     |-> <<"Sequence", "Action", "Action">>,
      children |-> << <<2, 3>>, <<>>, <<>> >>,
      name     |-> <<"ROOT", "A", "B">>,
      roots    |-> <<1, 1>> ],
    \* 15: Sequence[A, A, Selector "Pick"[P?, A]]: two children of one composite
    \*     have the same name
    [ kind     |-> <<"Sequence", "Action", "Action", "Selector", "Condition", "Action">>,
      children |-> << <<2, 3, 4>>, <<>>, <<>>, <<5, 6>>, <<>>, <<>> >>,
      name     |-> <<"ROOT", "A", "A", "Pick", "P", "A">>,
      roots    |-> <<1>> ],
    \* 16: the tree of BuildBehaviorTree in BehaviorTree/BehaviorTree.py.  Its leaves
    \*     are DummyCondition / DummyAction, whose operation returns the default
    \*     given at construction (`default`; 0 for a composite, which has none).
    [ kind     |-> <<"Selector",
                     "Sequence", "Condition", "Action",
                     "Sequence", "Condition", "Action",
                     "Selector",
                     "Sequence", "Condition", "Action", "Action", "Action", "Action",
                     "Sequence", "Condition", "Action",
                     "Sequence", "Condition", "Action",
                     "Selector",
                     "Sequence", "Condition", "Action", "Action",
                     "Sequence", "Action", "Action", "Action",
                     "Sequence", "Condition", "Action">>,
      children |-> << <<2, 5, 8, 21>>,
                      <<3, 4>>, <<>>, <<>>,
                      <<6, 7>>, <<>>, <<>>,
                      <<9, 15, 18>>,
                      <<10, 11, 12, 13, 14>>, <<>>, <<>>, <<>>, <<>>, <<>>,
                      <<16, 17>>, <<>>, <<>>,
                      <<19, 20>>, <<>>, <<>>,
                      <<22, 26, 30>>,
                      <<23, 24, 25>>, <<>>, <<>>, <<>>,
                      <<27, 28, 29>>, <<>>, <<>>, <<>>,
                      <<31, 32>>, <<>>, <<>> >>,
      name     |-> <<"ROOT",
                     "HandleLoading", "IsLoadingScreen", "WaitLoading",
                     "HandleMapNotReady", "MapNotReady", "WaitMapReady",
                     "LeaderBranch",
                     "LeaderCombat", "DetectEnemiesInRange", "SelectBestTarget",
                     "MoveIntoCombatPosition", "UseSkills", "AttackTarget",
                     "LeaderLoot", "DetectLootNearby", "MoveAndPickup",
                     "LeaderMovement", "HasMovementCommand", "MoveToCommandPoint",
                     "FollowerBranch",
                     "FollowerEmergencyCombat", "EnemyThreatDetected", "DefendSelf",
                     "UseQuickSkill",
                     "FollowerFormation", "GetLeaderPosition", "ComputeFormationOffset",
                     "MoveToOffset",
                     "FollowerRecovery", "IsTooFarFromLeader", "SprintToLeader">>,
      default  |-> <<0,
                     0, FALSE, RUNNING,
                     0, FALSE, RUNNING,
                     0,
                     0, FALSE, SUCCESS, SUCCESS, SUCCESS, SUCCESS,
                     0, FALSE, SUCCESS,
                     0, FALSE, SUCCESS,
                     0,
                     0, FALSE, SUCCESS, SUCCESS,
                     0, SUCCESS, SUCCESS, SUCCESS,
                     0, FALSE, SUCCESS>>,
      roots    |-> <<1>> ],
    \* 17: Sequence[P?, A], the root of a debugger window's BehaviorTree
    [ kind     |-> <<"Sequence", "Condition", "Action">>,
      children |-> << <<2, 3>>, <<>>, <<>> >>,
      name     |-> <<"ROOT", "P", "A">>,
      roots    |-> <<1>> ],
    \* 18: the tree of BuildBehaviorTree in BT_DebugUI.py and Widgets/BT_Debugger.py:
    \*     that of 16, but IsLoadingScreen is built with default_result=True
    [ kind     |-> <<"Selector",
                     "Sequence", "Condition", "Action",
                     "Sequence", "Condition", "Action",
                     "Selector",
                     "Sequence", "Condition", "Action", "Action", "Action", "Action",
                     "Sequence", "Condition", "Action",
                     "Sequence", "Condition", "Action",
                     "Selector",
                     "Sequence", "Condition", "Action", "Action",
                     "Sequence", "Action", "Action", "Action",
                     "Sequence", "Condition", "Action">>,
      children |-> << <<2, 5, 8, 21>>,
                      <<3, 4>>, <<>>, <<>>,
                      <<6, 7>>, <<>>, <<>>,
                      <<9, 15, 18>>,
                      <<10, 11, 12, 13, 14>>, <<>>, <<>>, <<>>, <<>>, <<>>,
                      <<16, 17>>, <<>>, <<>>,
                      <<19, 20>>, <<>>, <<>>,
                      <<22, 26, 30>>,
                      <<23, 24, 25>>, <<>>, <<>>, <<>>,
                      <<27, 28, 29>>, <<>>, <<>>, <<>>,
                      <<31, 32>>, <<>>, <<>> >>,
      name     |-> <<"ROOT",
                     "HandleLoading", "IsLoadingScreen", "WaitLoading",
                     "HandleMapNotReady", "MapNotReady", "WaitMapReady",
                     "LeaderBranch",
                     "LeaderCombat", "DetectEnemiesInRange", "SelectBestTarget",
                     "MoveIntoCombatPosition", "UseSkills", "AttackTarget",
                     "LeaderLoot", "DetectLootNearby", "MoveAndPickup",
                     "LeaderMovement", "HasMovementCommand", "MoveToCommandPoint",
                     "FollowerBranch",
                     "FollowerEmergencyCombat", "EnemyThreatDetected", "DefendSelf",
                     "UseQuickSkill",
                     "FollowerFormation", "GetLeaderPosition", "ComputeFormationOffset",
                     "MoveToOffset",
                     "FollowerRecovery", "IsTooFarFromLeader", "SprintToLeader">>,
      default  |-> <<0,
                     0, TRUE, RUNNING,
                     0, FALSE, RUNNING,
                     0,
                     0, FALSE, SUCCESS, SUCCESS, SUCCESS, SUCCESS,
                     0, FALSE, SUCCESS,
                     0, FALSE, SUCCESS,
                     0,
                     0, FALSE, SUCCESS, SUCCESS,
                     0, SUCCESS, SUCCESS, SUCCESS,
                     0, FALSE, SUCCESS>>,
      roots    |-> <<1>> ]
>>

\* The shapes built from the four engine classes only.
CoreShapes == 1..6
\* The shapes that also hold leaf classes of BehaviorTree/Nodes.
NodesShapes == 7..8
\* The shapes that hold a node whose tick() or operation is not implemented.
FaultShapes == 9..11
\* The shapes with two BehaviorTree instances.
TwoTreeShapes == {12}
\* The shapes whose nodes carry a parent reference.
ParentShapes == {13}
\* The shapes in which BehaviorTree instances share the module-level root.
SharedRootShapes == {14}
\* The shapes in which two nodes have the same name-path from the root.
SameNameShapes == {15}
\* The tree BehaviorTree/BehaviorTree.py builds, and the one BT_DebugUI.py builds.
DefaultTreeShapes == {16}
DraftTreeShapes == {18}
\* The trees behind the debugger windows.
WindowShapes == {17} \cup DraftTreeShapes

VARIABLES
    shape,          \* index into Shapes: the tree that was built (fixed)
    node,           \* node id -> the Node object's fields
    BT_TICK_ID,     \* the module-level tick counter
    clock,          \* the reading of time.perf_counter()
    tracker,        \* Node._executed_nodes_last_tick (class attribute)
    root,           \* instance -> BehaviorTree.root (None when absent)
    executed,       \* instance -> BehaviorTree._executed_nodes_last_tick
    last_snapshot,  \* instance -> <<>> (None) or <<snapshot>>
    builder,        \* instance -> SnapshotBuilder fields
    pc,             \* phase of the BehaviorTree.tick() call in flight
    cur,            \* the instance whose tick() is in flight
    result,         \* local `result` of tick(); its return value once pc = "idle"
    trace,          \* history: calls, leaf operations and returns of this tick
    held,           \* instance -> what a consumer's last get_snapshot() returned
    reads,          \* instance -> get_snapshot() calls since the last step of a tick
    finished,       \* the debugger window's module-level `finished`
    live_tick       \* the debugger widget's module-level `live_tick`

vars == << shape, node, BT_TICK_ID, clock, tracker, root, executed, last_snapshot,
           builder, pc, cur, result, trace, held, reads, finished, live_tick >>

Sh == Shapes[shape]
Nodes == 1..Len(Sh.kind)
Insts == 1..Len(Sh.roots)
Kind(n) == Sh.kind[n]
Children(n) == Sh.children[n]
Name(n) == Sh.name[n]
\* getattr(node, "parent"): the node's parent reference, None when the node has no
\* such attribute (or it is None).
ParentRef(n) == IF "parent" \in DOMAIN Sh THEN Sh.parent[n] ELSE None

IsSequence(n) == Kind(n) = "Sequence"
IsSelector(n) == Kind(n) = "Selector"
IsCondition(n) == Kind(n) = "Condition"
IsAction(n) == Kind(n) = "Action"
IsComposite(n) == IsSequence(n) \/ IsSelector(n)

\* node_type = self.__class__.__name__
NodeType(n) ==
    IF Kind(n) = "BaseCondition" THEN "Condition"
    ELSE IF Kind(n) = "BaseAction" THEN "Action"
    ELSE Kind(n)

SeqToSet(s) == { s[i] : i \in 1..Len(s) }

\* Node.__init__ (and Sequence.__init__ for index; index is kept 0 and unused
\* for the other classes, which have no such attribute).
NewNode ==
    [ last_state       |-> None,
      last_duration_ms |-> 0,
      accumulated_ms   |-> 0,
      is_active_path   |-> FALSE,
      exec_index       |-> 0,
      last_tick_id     |-> -1,
      path_id          |-> 0,
      index            |-> 0 ]

\* SnapshotBuilder.__init__
NewBuilder == [ tick_id |-> 0, records |-> <<>> ]

\* ---------------------------------------------------------------- history
Ev(e, n, v) == [ ev |-> e, node |-> n, val |-> v ]

\* ------------------------------------------------------- tick session tracker
\* Mutant: begin_new_tick resets no node.
ResetTracked_Nothing(nd, tr) == nd

\* Mutant: begin_new_tick forgets to clear is_active_path.
ResetTracked_KeepActive(nd, tr) ==
    [ n \in DOMAIN nd |->
        IF n \in SeqToSet(tr) THEN [ nd[n] EXCEPT !.exec_index = 0 ] ELSE nd[n] ]

\* Mutant: begin_new_tick forgets to reset exec_index.
ResetTracked_KeepIndex(nd, tr) ==
    [ n \in DOMAIN nd |->
        IF n \in SeqToSet(tr) THEN [ nd[n] EXCEPT !.is_active_path = FALSE ] ELSE nd[n] ]

\* Mutant: begin_new_tick also forgets the state the tracked nodes returned.
ResetTracked_ClearsState(nd, tr) ==
    [ n \in DOMAIN nd |->
        IF n \in SeqToSet(tr)
        THEN [ nd[n] EXCEPT !.is_active_path = FALSE, !.exec_index = 0,
                            !.last_state = None ]
        ELSE nd[n] ]

\* Node.begin_new_tick: the loop over the tracked nodes (the counter increment and
\* the clear() are in TickBegin).
ResetTracked(nd, tr) ==
    [ n \in DOMAIN nd |->
        IF n \in SeqToSet(tr)
        THEN [ nd[n] EXCEPT !.is_active_path = FALSE, !.exec_index = 0 ]
        ELSE nd[n] ]

\* Mutant: a 0-based exec_index.
register_executed_ZeroBased(h, n) ==
    [ h EXCEPT !.node[n].is_active_path = TRUE,
               !.node[n].exec_index = Len(h.tracker),
               !.tracker = Append(h.tracker, n) ]

\* Node.register_executed on the heap h of the tick in flight.
register_executed(h, n) ==
    [ h EXCEPT !.node[n].is_active_path = TRUE,
               !.node[n].exec_index = Len(h.tracker) + 1,
               !.tracker = Append(h.tracker, n) ]

\* Mutant: _finish_tick does not stamp last_tick_id.
finish_tick_NoStamp(h, n, state, start_time) ==
    LET end == h.now
        h1  == [ h EXCEPT !.node[n].last_state = state,
                          !.node[n].last_duration_ms = end - start_time,
                          !.node[n].accumulated_ms = @ + (end - start_time) ]
        h2  == register_executed(h1, n)
    IN  [ h |-> [ h2 EXCEPT !.trace = Append(@, Ev("ret", n, state)) ],
          state |-> state ]

\* Mutant: _finish_tick stores the duration as the total instead of adding it.
finish_tick_OverwritesTotal(h, n, state, start_time) ==
    LET end == h.now
        h1  == [ h EXCEPT !.node[n].last_state = state,
                          !.node[n].last_duration_ms = end - start_time,
                          !.node[n].accumulated_ms = end - start_time ]
        h2  == register_executed(h1, n)
        h3  == [ h2 EXCEPT !.node[n].last_tick_id = h.tick ]
    IN  [ h |-> [ h3 EXCEPT !.trace = Append(@, Ev("ret", n, state)) ],
          state |-> state ]

\* Mutant: _finish_tick stores the state only while none is stored.
finish_tick_KeepsFirstState(h, n, state, start_time) ==
    LET end == h.now
        h1  == [ h EXCEPT !.node[n].last_state = IF @ = None THEN state ELSE @,
                          !.node[n].last_duration_ms = end - start_time,
                          !.node[n].accumulated_ms = @ + (end - start_time) ]
        h2  == register_executed(h1, n)
        h3  == [ h2 EXCEPT !.node[n].last_tick_id = h.tick ]
    IN  [ h |-> [ h3 EXCEPT !.trace = Append(@, Ev("ret", n, state)) ],
          state |-> state ]

\* Node._finish_tick: returns the heap after completion and the state returned.
finish_tick(h, n, state, start_time) ==
    LET end == h.now
        h1  == [ h EXCEPT !.node[n].last_state = state,
                          !.node[n].last_duration_ms = end - start_time,
                          !.node[n].accumulated_ms = @ + (end - start_time) ]
        h2  == register_executed(h1, n)
        h3  == [ h2 EXCEPT !.node[n].last_tick_id = h.tick ]
    IN  [ h |-> [ h3 EXCEPT !.trace = Append(@, Ev("ret", n, state)) ],
          state |-> state ]

\* ------------------------------------------------------------------ leaves
\* Mutant: a false predicate leaves the Condition RUNNING.
ConditionState_FalseRuns(res) == IF res THEN SUCCESS ELSE RUNNING

\* Condition.tick: the mapping true -> SUCCESS, false -> FAILURE.
ConditionState(res) == IF res THEN SUCCESS ELSE FAILURE

\* Condition.tick: one call of condition(), then the completion step.
ConditionTick(h, n, in) ==
    LET start == h.now
        res == in.cond[n]
        h1 == [ h EXCEPT !.trace = Append(@, Ev("op", n, res)),
                         !.now = @ + in.dur ]
    IN  finish_tick(h1, n, ConditionState(res), start)

\* Mutant: whatever action() returned is passed on unchecked.
ActionState_PassThrough(raw) == raw

\* Action.tick: one call of action(); a value that is no NodeState becomes FAILURE.
ActionState(raw) == IF raw \in NodeState THEN raw ELSE FAILURE

ActionTick(h, n, in) ==
    LET start == h.now
        raw == in.act[n]
        h1 == [ h EXCEPT !.trace = Append(@, Ev("op", n, raw)),
                         !.now = @ + in.dur ]
    IN  finish_tick(h1, n, ActionState(raw), start)

\* The leaf classes of BehaviorTree/Nodes override tick() itself and return a
\* constant: IsLoadingScreen, MapNotReady (Conditions.py), WaitLoading,
\* MoveToOffset (Actions.py).
NodesLeafReturn(k) ==
    IF k = "IsLoadingScreen" THEN SUCCESS
    ELSE IF k = "MapNotReady" THEN FAILURE
    ELSE IF k = "WaitLoading" THEN RUNNING
    ELSE SUCCESS

\* Their tick(): `return NodeState.X`, nothing else.
NodesLeafTick(h, n) ==
    [ h |-> [ h EXCEPT !.trace = Append(@, Ev("ret", n, NodesLeafReturn(Kind(n)))) ],
      state |-> NodesLeafReturn(Kind(n)) ]

\* A base Node, or a Condition / Action that does not override its operation.
IsUnimplemented(n) == Kind(n) \in {"Node", "BaseCondition", "BaseAction"}

\* Mutant: the unimplemented operation counts as a failed one.
RaiseTick_ReturnsFailure(h, n) == finish_tick(h, n, FAILURE, h.now)

\* Node.tick raises at once; Condition.tick / Action.tick take the start time and
\* raise inside condition() / action(), before _finish_tick.
RaiseTick(h, n) ==
    [ h |-> [ h EXCEPT !.trace = Append(@, Ev("raise", n, None)) ], state |-> Raised ]

\* Mutant: the composite catches the child's exception and goes on as if the
\* child had failed (it returns FAILURE from there).
Propagate_Swallow(h) == [ h |-> h, state |-> FAILURE ]

\* An exception in a child leaves the composite's tick() at that point: nothing
\* after the child call runs.
Propagate(h) == [ h |-> h, state |-> Raised ]

\* --------------------------------------------------------------- composites
RECURSIVE Tick(_, _, _)
RECURSIVE SequenceLoop(_, _, _, _)
RECURSIVE SelectorLoop(_, _, _, _, _)

\* Mutant: on a RUNNING child the Sequence moves its cursor past that child.
SequenceOnRunning_Advance(h, n, start) ==
    finish_tick([ h EXCEPT !.node[n].index = @ + 1 ], n, RUNNING, start)

\* Mutant: a RUNNING child restarts the Sequence (index = 0).
SequenceOnRunning_Restart(h, n, start) ==
    finish_tick([ h EXCEPT !.node[n].index = 0 ], n, RUNNING, start)

\* Sequence.tick, child returned RUNNING: return RUNNING, index untouched.
SequenceOnRunning(h, n, start) ==
    finish_tick(h, n, RUNNING, start)

\* Mutant: a FAILURE child leaves the cursor where it is.
SequenceOnFailure_KeepCursor(h, n, start) ==
    finish_tick(h, n, FAILURE, start)

\* Sequence.tick, child returned FAILURE: index = 0, return FAILURE.
SequenceOnFailure(h, n, start) ==
    finish_tick([ h EXCEPT !.node[n].index = 0 ], n, FAILURE, start)

\* Sequence.tick, child returned anything else: index += 1, loop again.
SequenceOnSuccess(h, n) ==
    [ h EXCEPT !.node[n].index = @ + 1 ]

\* Mutant: the completed Sequence does not rewind its cursor.
SequenceFinished_KeepCursor(h, n, start) ==
    finish_tick(h, n, SUCCESS, start)

\* Sequence.tick, loop left: index = 0, return SUCCESS.
SequenceFinished(h, n, start) ==
    finish_tick([ h EXCEPT !.node[n].index = 0 ], n, SUCCESS, start)

\* Sequence.tick: the while loop over self.index.
SequenceLoop(h, n, in, start) ==
    IF h.node[n].index < Len(Children(n))
    THEN LET child == Children(n)[h.node[n].index + 1]
             r == Tick(h, child, in)
         IN  IF r.state = Raised THEN Propagate(r.h)
             ELSE IF r.state = RUNNING THEN SequenceOnRunning(r.h, n, start)
             ELSE IF r.state = FAILURE THEN SequenceOnFailure(r.h, n, start)
             ELSE SequenceLoop(SequenceOnSuccess(r.h, n), n, in, start)
    ELSE SequenceFinished(h, n, start)

\* Mutant: a Selector that stops at a child abandons the children it did not
\* reach: their cursors are put back to 0.
SelectorOnResult_AbandonsRest(h, n, state, start) ==
    finish_tick([ h EXCEPT !.node = [ m \in DOMAIN @ |->
                    IF /\ m \in SeqToSet(Children(n))
                       /\ ~\E i \in 1..Len(h.trace) :
                              h.trace[i].ev = "call" /\ h.trace[i].node = m
                    THEN [ @[m] EXCEPT !.index = 0 ]
                    ELSE @[m] ] ],
                n, state, start)

\* Mutant: the Selector reports every child that did not fail as SUCCESS.
SelectorOnResult_AlwaysSuccess(h, n, state, start) ==
    finish_tick(h, n, SUCCESS, start)

\* Selector.tick, a child returned RUNNING or SUCCESS: return it at once.
SelectorOnResult(h, n, state, start) ==
    finish_tick(h, n, state, start)

\* Mutant: a Selector that ran out of children returns FAILURE without the
\* completion step, so it is never registered.
SelectorExhausted_Unregistered(h, n, start) ==
    [ h |-> [ h EXCEPT !.trace = Append(@, Ev("ret", n, FAILURE)) ], state |-> FAILURE ]

\* Mutant: a Selector that ran out of children returns nothing (None).
SelectorExhausted_ReturnsNone(h, n, start) == finish_tick(h, n, None, start)

\* Selector.tick, the for loop ran out: return FAILURE.
SelectorExhausted(h, n, start) ==
    finish_tick(h, n, FAILURE, start)

\* Selector.tick: the for loop, i the 1-based position in self.children.
SelectorLoop(h, n, in, start, i) ==
    IF i <= Len(Children(n))
    THEN LET r == Tick(h, Children(n)[i], in)
         IN  IF r.state = Raised THEN Propagate(r.h)
             ELSE IF r.state = RUNNING THEN SelectorOnResult(r.h, n, RUNNING, start)
             ELSE IF r.state = SUCCESS THEN SelectorOnResult(r.h, n, SUCCESS, start)
             ELSE SelectorLoop(r.h, n, in, start, i + 1)
    ELSE SelectorExhausted(h, n, start)

\* Mutant: a Selector with memory, which resumes at the child that was RUNNING.
SelectorFirst_Resume(h, n) ==
    IF \E j \in 1..Len(Children(n)) : h.node[Children(n)[j]].last_state = RUNNING
    THEN CHOOSE j \in 1..Len(Children(n)) : h.node[Children(n)[j]].last_state = RUNNING
    ELSE 1

\* Where a Selector's scan starts: `for child in self.children`.
SelectorFirst(h, n) == 1

\* node.tick(), dispatched on the node's class.
Tick(h, n, in) ==
    LET h0 == [ h EXCEPT !.trace = Append(@, Ev("call", n, None)) ]
    IN  IF IsSequence(n) THEN SequenceLoop(h0, n, in, h0.now)
        ELSE IF IsSelector(n) THEN SelectorLoop(h0, n, in, h0.now, SelectorFirst(h0, n))
        ELSE IF IsCondition(n) THEN ConditionTick(h0, n, in)
        ELSE IF IsAction(n) THEN ActionTick(h0, n, in)
        ELSE IF IsUnimplemented(n) THEN RaiseTick(h0, n)
        ELSE NodesLeafTick(h0, n)

\* ---------------------------------------------------------- leaf inputs
ConditionNodes == { n \in Nodes : IsCondition(n) }
ActionNodes == { n \in Nodes : IsAction(n) }
\* What action() may hand back: a NodeState, or something that is none (None).
ActionReturns == NodeState \cup {None}

\* Mutant: the DummyConditions are built without the default_result argument, so
\* each has the constructor's default (True).
default_result_ConstructorDefault(n) == TRUE

\* Mutant: every DummyCondition is built with default_result=False.
default_result_AllFalse(n) == FALSE

\* DummyCondition.condition: `return self.default_result`
default_result(n) == Sh.default[n]
\* DummyAction.action: `return self.default_state`
default_state(n) == Sh.default[n]

\* What the leaf operations return in one tick, and how long each takes.  In a tree
\* of Dummy leaves every operation returns its default; otherwise any result.
Inputs ==
    IF "default" \in DOMAIN Sh
    THEN { [ cond |-> [ n \in ConditionNodes |-> default_result(n) ],
             act  |-> [ n \in ActionNodes |-> default_state(n) ],
             dur  |-> d ] : d \in 0..MaxClock }
    ELSE { [ cond |-> c, act |-> a, dur |-> d ] :
             c \in [ConditionNodes -> BOOLEAN],
             a \in [ActionNodes -> ActionReturns],
             d \in 0..MaxClock }

\* ------------------------------------------------------------- snapshots
\* Mutant: record never looks at the parent reference.
record_NoParent(b, nd, n, state_str, duration_ms) ==
    [ b EXCEPT !.records = Append(@,
        [ tick_id        |-> b.tick_id,
          exec_index     |-> nd[n].exec_index,
          path_id        |-> nd[n].path_id,
          parent_path_id |-> 0,
          node_type      |-> NodeType(n),
          name           |-> Name(n),
          state          |-> state_str,
          duration_ms    |-> duration_ms ]) ]

\* SnapshotBuilder.record: parent_path_id is the parent's path_id when the node has
\* a parent reference, 0 otherwise.
record(b, nd, n, state_str, duration_ms) ==
    [ b EXCEPT !.records = Append(@,
        [ tick_id        |-> b.tick_id,
          exec_index     |-> nd[n].exec_index,
          path_id        |-> nd[n].path_id,
          parent_path_id |-> IF ParentRef(n) # None THEN nd[ParentRef(n)].path_id ELSE 0,
          node_type      |-> NodeType(n),
          name           |-> Name(n),
          state          |-> state_str,
          duration_ms    |-> duration_ms ]) ]

\* The for loop of BehaviorTree.tick over the executed nodes.
RECURSIVE RecordAll(_, _, _)
RecordAll(b, nd, ex) ==
    IF ex = <<>> THEN b
    ELSE RecordAll(record(b, nd, Head(ex), StateName(nd[Head(ex)].last_state),
                          nd[Head(ex)].last_duration_ms),
                   nd, Tail(ex))

\* Mutant: the sort puts the larger exec_index first.
RECURSIVE InsertByExecIndex_Descending(_, _)
InsertByExecIndex_Descending(sorted, s) ==
    IF sorted = <<>> THEN <<s>>
    ELSE IF Head(sorted).exec_index >= s.exec_index
         THEN <<Head(sorted)>> \o InsertByExecIndex_Descending(Tail(sorted), s)
         ELSE <<s>> \o sorted

\* sorted(records, key=exec_index): a stable insertion sort.
RECURSIVE InsertByExecIndex(_, _)
InsertByExecIndex(sorted, s) ==
    IF sorted = <<>> THEN <<s>>
    ELSE IF Head(sorted).exec_index <= s.exec_index
         THEN <<Head(sorted)>> \o InsertByExecIndex(Tail(sorted), s)
         ELSE <<s>> \o sorted

RECURSIVE SortedByExecIndex(_)
SortedByExecIndex(recs) ==
    IF recs = <<>> THEN <<>>
    ELSE InsertByExecIndex(SortedByExecIndex(SubSeq(recs, 1, Len(recs) - 1)),
                           recs[Len(recs)])

\* {s.path_id: s for s in ordered}: the last entry of a path_id wins.
ByPath(ordered) ==
    [ p \in { ordered[i].path_id : i \in 1..Len(ordered) } |->
        LET last == CHOOSE i \in 1..Len(ordered) :
                        /\ ordered[i].path_id = p
                        /\ \A j \in 1..Len(ordered) : ordered[j].path_id = p => j <= i
        IN  ordered[last] ]

\* A Python list is an object.  Two list objects can sit behind a snapshot's "nodes":
\* a list made for it (sorted() returns a new list, which nothing else refers to
\* and nothing mutates), or the builder's own _records list, which reset() clears
\* in place and record() appends to.
NewList(items) == [ shared |-> FALSE, items |-> items ]
RecordsList == [ shared |-> TRUE, items |-> <<>> ]
\* The elements seen through a list reference, given the builder it belongs to.
ListItems(l, b) == IF l.shared THEN b.records ELSE l.items

\* Mutant: the snapshot is given the builder's own _records list, unsorted and
\* uncopied.
build_SharesRecords(b) ==
    [ tick_id |-> b.tick_id, nodes |-> RecordsList, by_path |-> ByPath(b.records) ]

\* SnapshotBuilder.build
build(b) ==
    LET ordered == SortedByExecIndex(b.records)
    IN  [ tick_id |-> b.tick_id, nodes |-> NewList(ordered), by_path |-> ByPath(ordered) ]

\* Node.get_executed_nodes_last_tick: a copy of the tracker.
get_executed_nodes_last_tick(tr) == tr

\* ------------------------------------------------------------- path ids
\* The pieces path strings are made of: the separator and the node names.
Alphabet ==
    << "/", "ROOT", "A", "B", "C", "P", "Q", "X", "Work", "Pick", "Empty", "Nothing", "Both",
       "HandleLoading", "IsLoadingScreen", "WaitLoading", "MapNotReady", "Follow",
       "MoveToOffset" >>
PieceCode(t) == CHOOSE c \in 1..Len(Alphabet) : Alphabet[c] = t
\* Radix of the digest below: larger than every piece code.
HashBase == 32

\* "/".join(parts), as the sequence of its pieces.
RECURSIVE JoinPath(_)
JoinPath(parts) ==
    IF Len(parts) <= 1 THEN parts
    ELSE << Head(parts), "/" >> \o JoinPath(Tail(parts))

\* hash64: a deterministic digest of the path string.  It is taken as free of
\* collisions and of the value 0 on the paths of a tree (a positional code of the
\* pieces; paths are short enough that no reduction to 64 bits takes place).
RECURSIVE hash64(_)
hash64(data) ==
    IF data = <<>> THEN 0
    ELSE hash64(SubSeq(data, 1, Len(data) - 1)) * HashBase + PieceCode(data[Len(data)])

\* Mutant: the pass stores the per-snapshot node id as path_id, every time.
VisitPathId_SnapshotId(nd, n, path_id, nid) == [ nd EXCEPT ![n].path_id = nid ]

\* visit: `if getattr(node, "path_id", 0) == 0: node.path_id = path_id`
VisitPathId(nd, n, path_id, nid) ==
    IF nd[n].path_id = 0 THEN [ nd EXCEPT ![n].path_id = path_id ] ELSE nd

\* sorted(children, key=exec_index): a stable insertion sort of node ids.
RECURSIVE InsertChild(_, _, _)
InsertChild(nd, sorted, c) ==
    IF sorted = <<>> THEN <<c>>
    ELSE IF nd[Head(sorted)].exec_index <= nd[c].exec_index
         THEN <<Head(sorted)>> \o InsertChild(nd, Tail(sorted), c)
         ELSE <<c>> \o sorted

RECURSIVE SortedChildren(_, _)
SortedChildren(nd, cs) ==
    IF cs = <<>> THEN <<>>
    ELSE InsertChild(nd, SortedChildren(nd, SubSeq(cs, 1, Len(cs) - 1)), cs[Len(cs)])

\* _build_snapshot.visit on v = [nd: the node fields, next_id: the id counter].  The
\* dict of per-node entries it fills is local to the call and is not kept.
RECURSIVE visit(_, _, _)
RECURSIVE visitChildren(_, _, _)
visit(v, n, path_parts) ==
    LET path_id == hash64(JoinPath(Append(path_parts, Name(n))))
        nid == v.next_id
        v1  == [ nd |-> VisitPathId(v.nd, n, path_id, nid), next_id |-> nid + 1 ]
    IN  visitChildren(v1, SortedChildren(v1.nd, Children(n)), Append(path_parts, Name(n)))

visitChildren(v, cs, path_parts) ==
    IF cs = <<>> THEN v
    ELSE visitChildren(visit(v, Head(cs), path_parts), Tail(cs), path_parts)

\* BehaviorTree._build_snapshot
build_snapshot(nd, r) ==
    IF r # None THEN visit([ nd |-> nd, next_id |-> 1 ], r, <<>>).nd ELSE nd

\* ------------------------------------------------------------------ Init
InitShape(s) ==
    /\ shape = s
    /\ node = [ n \in 1..Len(Shapes[s].kind) |-> NewNode ]
    /\ BT_TICK_ID = 0
    /\ clock = 0
    /\ tracker = <<>>
    /\ root = Shapes[s].roots
    /\ executed = [ i \in 1..Len(Shapes[s].roots) |-> <<>> ]
    /\ last_snapshot = [ i \in 1..Len(Shapes[s].roots) |-> <<>> ]
    /\ builder = [ i \in 1..Len(Shapes[s].roots) |-> NewBuilder ]
    /\ pc = "idle"
    /\ cur = 1
    /\ result = None
    /\ trace = <<>>
    /\ held = [ i \in 1..Len(Shapes[s].roots) |-> <<>> ]
    /\ reads = [ i \in 1..Len(Shapes[s].roots) |-> 0 ]
    /\ finished = FALSE
    /\ live_tick = FALSE

Init == \E s \in CoreShapes : InitShape(s)

\* Trees that hold the leaf classes of BehaviorTree/Nodes.
InitNodes == \E s \in NodesShapes : InitShape(s)

\* Trees that hold a node that is not implemented.
InitFault == \E s \in FaultShapes : InitShape(s)

\* --------------------------------------------------------------- actions
\* A step of a tick ends every run of consecutive reads.
NoReads == [ i \in Insts |-> 0 ]

\* Mutant: the builder is reset with the counter value read before the increment.
reset_StaleTickId(b, tick_id) == [ b EXCEPT !.tick_id = tick_id - 1, !.records = <<>> ]

\* SnapshotBuilder.reset
reset(b, tick_id) == [ b EXCEPT !.tick_id = tick_id, !.records = <<>> ]

\* Mutant: the short-circuit returns FAILURE but leaves the published snapshot
\* and the executed list of the earlier tick in place.
TickNoRoot_KeepSnapshot(i) ==
    /\ result' = FAILURE
    /\ pc' = "idle"
    /\ UNCHANGED << executed, last_snapshot >>

\* `if not self.root`: the executed list and the snapshot are cleared, FAILURE is
\* returned.
TickNoRoot(i) ==
    /\ executed' = [ executed EXCEPT ![i] = <<>> ]
    /\ last_snapshot' = [ last_snapshot EXCEPT ![i] = <<>> ]
    /\ result' = FAILURE
    /\ pc' = "idle"

\* BehaviorTree.tick, up to `if not self.root`: Node.begin_new_tick(), the builder
\* reset, and the whole short-circuit when there is no root.
TickBegin(i) ==
    /\ pc = "idle"
    /\ BT_TICK_ID < MaxTicks
    /\ BT_TICK_ID' = BT_TICK_ID + 1
    /\ node' = ResetTracked(node, tracker)
    /\ tracker' = <<>>
    /\ builder' = [ builder EXCEPT ![i] = reset(builder[i], BT_TICK_ID + 1) ]
    /\ trace' = <<>>
    /\ cur' = i
    /\ IF root[i] = None
       THEN TickNoRoot(i)
       ELSE /\ pc' = "begun"
            /\ UNCHANGED << executed, last_snapshot, result >>
    /\ reads' = NoReads
    /\ UNCHANGED << finished, live_tick, shape, root, clock, held >>

\* result = self.root.tick(): the whole descent, with the leaves' results as input.
TickRoot ==
    /\ pc = "begun"
    /\ \E in \in Inputs :
         LET h0 == [ node |-> node, tracker |-> tracker, trace |-> trace,
                     now |-> clock, tick |-> BT_TICK_ID ]
             r  == Tick(h0, root[cur], in)
         IN  /\ r.h.now <= MaxClock
             /\ clock' = r.h.now
             /\ node' = r.h.node
             /\ tracker' = r.h.tracker
             /\ trace' = r.h.trace
             /\ result' = r.state
             \* an exception leaves tick() before anything is collected or published
             /\ pc' = IF r.state = Raised THEN "idle" ELSE "executed"
    /\ reads' = NoReads
    /\ UNCHANGED << finished, live_tick, shape, BT_TICK_ID, root, executed, last_snapshot, builder, cur, held >>

\* Mutant: the snapshot reference is written before the record loop has run, and
\* again at the end.
TickCollect_PublishesEarly ==
    /\ pc = "executed"
    /\ LET ex == get_executed_nodes_last_tick(tracker)
       IN  /\ executed' = [ executed EXCEPT ![cur] = ex ]
           /\ builder' = [ builder EXCEPT ![cur] = RecordAll(builder[cur], node, ex) ]
    /\ last_snapshot' = [ last_snapshot EXCEPT ![cur] = << build(builder[cur]) >> ]
    /\ pc' = "recorded"
    /\ reads' = NoReads
    /\ UNCHANGED << finished, live_tick, shape, node, BT_TICK_ID, clock, tracker, root,
                    cur, result, trace, held >>

\* executed = Node.get_executed_nodes_last_tick(); the record loop.
TickCollect ==
    /\ pc = "executed"
    /\ LET ex == get_executed_nodes_last_tick(tracker)
       IN  /\ executed' = [ executed EXCEPT ![cur] = ex ]
           /\ builder' = [ builder EXCEPT ![cur] = RecordAll(builder[cur], node, ex) ]
    /\ pc' = "recorded"
    /\ reads' = NoReads
    /\ UNCHANGED << finished, live_tick, shape, node, BT_TICK_ID, clock, tracker, root, last_snapshot,
                    cur, result, trace, held >>

\* Mutant: a snapshot is published only while none is there; afterwards the first one
\* stays.
TickPublish_KeepFirst ==
    /\ pc = "recorded"
    /\ last_snapshot' = IF last_snapshot[cur] = <<>>
                        THEN [ last_snapshot EXCEPT ![cur] = << build(builder[cur]) >> ]
                        ELSE last_snapshot
    /\ pc' = "idle"
    /\ reads' = NoReads
    /\ UNCHANGED << finished, live_tick, shape, node, BT_TICK_ID, clock, tracker, root, executed,
                    builder, cur, result, trace, held >>

\* self.last_snapshot = self._snapshot_builder.build(); return result
TickPublish ==
    /\ pc = "recorded"
    /\ last_snapshot' = [ last_snapshot EXCEPT ![cur] = << build(builder[cur]) >> ]
    /\ pc' = "idle"
    /\ reads' = NoReads
    /\ UNCHANGED << finished, live_tick, shape, node, BT_TICK_ID, clock, tracker, root, executed,
                    builder, cur, result, trace, held >>

\* An owner assigns BehaviorTree.root (BT_INSTANCE.root = BT_ROOT), or clears it.
SetRoot(i, r) ==
    /\ pc = "idle"
    /\ root[i] # r
    /\ root' = [ root EXCEPT ![i] = r ]
    /\ UNCHANGED << finished, live_tick, shape, node, BT_TICK_ID, clock, tracker, executed,
                    last_snapshot, builder, pc, cur, result, trace, held, reads >>

Next ==
    \/ \E i \in Insts : TickBegin(i)
    \/ TickRoot
    \/ TickCollect
    \/ TickPublish
    \/ \E i \in Insts : \E r \in SeqToSet(Sh.roots) \cup {None} : SetRoot(i, r)

Spec == Init /\ [][Next]_vars

SpecNodes == InitNodes /\ [][Next]_vars

SpecFault == InitFault /\ [][Next]_vars

\* Two BehaviorTree instances, ticked in any order.
InitTwo == \E s \in TwoTreeShapes : InitShape(s)
\* Each instance keeps the root it was given.
NextTwo ==
    \/ \E i \in Insts : TickBegin(i)
    \/ TickRoot
    \/ TickCollect
    \/ TickPublish
SpecTwo == InitTwo /\ [][NextTwo]_vars

\* BT_ROOT = BuildBehaviorTree(): the tree built once, when the module is loaded.
BT_ROOT == Sh.roots[1]

\* Mutant: every construction builds a tree of its own (fresh nodes).
ConstructedNodes_Rebuilt(nd) == [ n \in DOMAIN nd |-> NewNode ]

\* BehaviorTree.__init__ creates no node: `self.root = BT_ROOT` is a reference to
\* the nodes that exist.
ConstructedNodes(nd) == nd

\* An owner replaces instance i by a newly constructed one: test_bt = BehaviorTree()
\* (the debugger's "Reset Tree"), between two ticks.
Construct(i) ==
    /\ pc = "idle"
    /\ root' = [ root EXCEPT ![i] = BT_ROOT ]
    /\ executed' = [ executed EXCEPT ![i] = <<>> ]
    /\ last_snapshot' = [ last_snapshot EXCEPT ![i] = <<>> ]
    /\ builder' = [ builder EXCEPT ![i] = NewBuilder ]
    /\ node' = ConstructedNodes(node)
    /\ UNCHANGED << finished, live_tick, shape, BT_TICK_ID, clock, tracker, pc, cur, result, trace, held,
                    reads >>

\* Two BehaviorTree instances of one module, ticked and re-constructed in any order.
InitShared == \E s \in SharedRootShapes : InitShape(s)
NextShared ==
    \/ \E i \in Insts : TickBegin(i)
    \/ TickRoot
    \/ TickCollect
    \/ TickPublish
    \/ \E i \in Insts : Construct(i)
SpecShared == InitShared /\ [][NextShared]_vars

\* A tree with same-named siblings.
InitSameName == \E s \in SameNameShapes : InitShape(s)
SpecSameName == InitSameName /\ [][Next]_vars

\* --------------------------------------------------- reading a snapshot
\* BehaviorTree.GetSnapshot: the reference held in last_snapshot (<<>> for None).
GetSnapshotValue(i) == last_snapshot[i]
\* snapshot["nodes"] of a snapshot of instance i, as a reader sees it now.
SnapshotNodes(i, snap) == ListItems(snap.nodes, builder[i])
\* Everything a reader can see of a snapshot of instance i.
SnapshotData(i, snap) ==
    [ tick_id |-> snap.tick_id, nodes |-> SnapshotNodes(i, snap), by_path |-> snap.by_path ]

\* Mutant: reading takes the snapshot away (read and clear).
GetSnapshot_Consume(i) ==
    /\ reads[i] < MaxReads
    /\ held' = [ held EXCEPT ![i] = GetSnapshotValue(i) ]
    /\ reads' = [ reads EXCEPT ![i] = @ + 1 ]
    /\ last_snapshot' = [ last_snapshot EXCEPT ![i] = <<>> ]
    /\ UNCHANGED << finished, live_tick, shape, node, BT_TICK_ID, clock, tracker, root, executed,
                    builder, pc, cur, result, trace >>

\* A consumer calls BehaviorTree.GetSnapshot and keeps what it returned.  The call
\* is one reference read and may come at any point of a tick.
GetSnapshot(i) ==
    /\ reads[i] < MaxReads
    /\ held' = [ held EXCEPT ![i] = GetSnapshotValue(i) ]
    /\ reads' = [ reads EXCEPT ![i] = @ + 1 ]
    /\ UNCHANGED << finished, live_tick, shape, node, BT_TICK_ID, clock, tracker, root, executed,
                    last_snapshot, builder, pc, cur, result, trace >>

\* Trees whose snapshots a consumer reads.
ReaderShapes == {3}
InitReader == \E s \in ReaderShapes : InitShape(s)
NextReader == Next \/ \E i \in Insts : GetSnapshot(i)
SpecReader == InitReader /\ [][NextReader]_vars

\* The tree of BehaviorTree/BehaviorTree.py behind its BehaviorTree, ticked and read.
InitDefault == \E s \in DefaultTreeShapes : InitShape(s)
NextDefault ==
    \/ \E i \in Insts : TickBegin(i)
    \/ TickRoot
    \/ TickCollect
    \/ TickPublish
    \/ \E i \in Insts : \E r \in SeqToSet(Sh.roots) \cup {None} : SetRoot(i, r)
    \/ \E i \in Insts : GetSnapshot(i)
SpecDefault == InitDefault /\ [][NextDefault]_vars

\* ------------------------------------------------------ the debugger windows
\* BT_DebugUI.py and Widgets/BT_Debugger.py carry a copy of the engine whose nodes
\* have no last_tick_id and no path_id (both stay at the model's initial values)
\* and whose BehaviorTree has no tick counter and no snapshot.  The window state w
\* is what one draw_window call reads and writes: the nodes, the tracker, the
\* clock, test_bt (its root and executed list), the last tick's result, the
\* history of the frame, and `finished`.
Window ==
    [ node |-> node, tracker |-> tracker, clock |-> clock, root |-> root[1],
      executed |-> executed[1], result |-> result, trace |-> <<>>,
      finished |-> finished ]

\* BehaviorTree.tick of the window's engine: begin_new_tick, then the root's tick
\* and the copy of the tracker, or FAILURE and an empty list when there is no root.
DraftTick(w, in) ==
    LET nd0 == ResetTracked(w.node, w.tracker)
    IN  IF w.root # None
        THEN LET r == Tick([ node |-> nd0, tracker |-> <<>>, trace |-> w.trace,
                             now |-> w.clock, tick |-> -1 ], w.root, in)
             IN  [ w EXCEPT !.node = r.h.node, !.tracker = r.h.tracker,
                            !.clock = r.h.now, !.trace = r.h.trace,
                            !.executed = get_executed_nodes_last_tick(r.h.tracker),
                            !.result = r.state ]
        ELSE [ w EXCEPT !.node = nd0, !.tracker = <<>>, !.executed = <<>>,
                        !.result = FAILURE ]

\* Mutant: only a successful tick ends the run.
FinishedAfter_OnlySuccess(state) == state = SUCCESS

\* `if state != NodeState.RUNNING: finished = True`
FinishedAfter(state) == state # RUNNING

\* state = test_bt.tick(), followed by the test above.
WindowTick(w, in) ==
    LET t == DraftTick(w, in)
    IN  [ t EXCEPT !.finished = IF FinishedAfter(t.result) THEN TRUE ELSE @ ]

\* "Reset Tree": test_bt = BehaviorTree(); finished = False.  The new BehaviorTree
\* has root = BT_ROOT and no executed list yet.
WindowReset(w) == [ w EXCEPT !.root = BT_ROOT, !.executed = <<>>, !.finished = FALSE ]

\* What a frame leaves behind.
SetWindow(w) ==
    /\ w.clock <= MaxClock
    /\ node' = w.node
    /\ tracker' = w.tracker
    /\ clock' = w.clock
    /\ root' = [ root EXCEPT ![1] = w.root ]
    /\ executed' = [ executed EXCEPT ![1] = w.executed ]
    /\ result' = w.result
    /\ trace' = w.trace
    /\ finished' = w.finished

\* draw_window of BT_DebugUI.py, one frame: pressed tells whether "Reset Tree" was
\* pressed.  The tree is ticked unless `finished`.
DebugUI_draw_window(pressed) ==
    /\ pc = "idle"
    /\ \E in \in Inputs :
         LET w0 == [ Window EXCEPT !.trace = << Ev("frame", None, pressed) >> ]
             w1 == IF pressed THEN WindowReset(w0) ELSE w0
         IN  \E w2 \in { IF ~w1.finished THEN WindowTick(w1, in) ELSE w1 } :
                 SetWindow(w2)
    /\ UNCHANGED << live_tick, shape, BT_TICK_ID, last_snapshot, builder, pc, cur,
                    held, reads >>

\* Mutant: the live tick does not look at `finished`.
LiveTickDue_IgnoresFinished(live, fin) == live

\* `if live_tick and test_bt is not None and not finished`
LiveTickDue(live, fin) == live /\ ~fin

\* The leaf results of a tick that does not take place: any one will do.
NoInputs == { CHOOSE in \in Inputs : TRUE }

\* draw_window of Widgets/BT_Debugger.py, one frame: pressed tells whether "Reset
\* Tree" was pressed, live what the "Live Tick" checkbox returned.  The reset
\* ticks once at once; the live tick comes later in the same frame.
Widget_draw_window(pressed, live) ==
    /\ pc = "idle"
    /\ \E in1 \in (IF pressed THEN Inputs ELSE NoInputs) :
         LET w0 == [ Window EXCEPT !.trace = << Ev("frame", None, << pressed, live >>) >> ]
         IN  \E w1 \in { IF pressed THEN WindowTick(WindowReset(w0), in1) ELSE w0 } :
             \E in2 \in (IF LiveTickDue(live, w1.finished) THEN Inputs ELSE NoInputs) :
             \E w2 \in { IF LiveTickDue(live, w1.finished)
                          THEN WindowTick(w1, in2) ELSE w1 } :
                 SetWindow(w2)
    /\ live_tick' = live
    /\ UNCHANGED << shape, BT_TICK_ID, last_snapshot, builder, pc, cur, held, reads >>

InitWindow == \E s \in WindowShapes : InitShape(s)
\* The window of BT_DebugUI.py, frame after frame.
NextDebugUI == \E pressed \in BOOLEAN : DebugUI_draw_window(pressed)
SpecDebugUI == InitWindow /\ [][NextDebugUI]_vars
\* The widget of Widgets/BT_Debugger.py, frame after frame.
NextWidget == \E pressed, live \in BOOLEAN : Widget_draw_window(pressed, live)
SpecWidget == InitWindow /\ [][NextWidget]_vars

\* A caller runs BehaviorTree._build_snapshot between ticks (tick() itself never
\* does).
BuildSnapshot(i) ==
    /\ pc = "idle"
    /\ node' = build_snapshot(node, root[i])
    /\ UNCHANGED << finished, live_tick, shape, BT_TICK_ID, clock, tracker, root, executed, last_snapshot,
                    builder, pc, cur, result, trace, held, reads >>

\* Trees on which _build_snapshot is run.
PathShapes == {3, 4}
InitPath == \E s \in PathShapes : InitShape(s)
NextPath == Next \/ \E i \in Insts : BuildSnapshot(i)
SpecPath == InitPath /\ [][NextPath]_vars

\* A tree with parent references, on which _build_snapshot may be run.
InitParent == \E s \in ParentShapes : InitShape(s)
SpecParent == InitParent /\ [][NextPath]_vars

\* ----------------------------------------------------- reading the tree shape
\* The parent of n in the tree (None for a root), and the names from the root to n.
Parent(n) ==
    IF \E p \in Nodes : n \in SeqToSet(Children(p))
    THEN CHOOSE p \in Nodes : n \in SeqToSet(Children(p))
    ELSE None
RECURSIVE NamePath(_)
NamePath(n) ==
    IF Parent(n) = None THEN << Name(n) >> ELSE Append(NamePath(Parent(n)), Name(n))

\* ------------------------------------------------- reading the tick history
\* Whether tick() of n was entered / has returned in the history tr.
Called(tr, n) == \E i \in 1..Len(tr) : tr[i].ev = "call" /\ tr[i].node = n
Returned(tr, n) == \E i \in 1..Len(tr) : tr[i].ev = "ret" /\ tr[i].node = n
\* What tick() of n returned (n has returned, once).
RetVal(tr, n) == tr[CHOOSE i \in 1..Len(tr) : tr[i].ev = "ret" /\ tr[i].node = n].val
\* How often tick() of n was entered, and how often its operation was evaluated.
CallCount(tr, n) == Cardinality({ i \in 1..Len(tr) : tr[i].ev = "call" /\ tr[i].node = n })
OpCount(tr, n) == Cardinality({ i \in 1..Len(tr) : tr[i].ev = "op" /\ tr[i].node = n })
\* The children of s whose tick() was entered, in the order of the calls.
ChildCalls(tr, s) ==
    LET sel == SelectSeq(tr, LAMBDA e : e.ev = "call" /\ e.node \in SeqToSet(Children(s)))
    IN  [ i \in 1..Len(sel) |-> sel[i].node ]
\* The nodes that completed tick(), in completion order.
Completed(tr) ==
    LET sel == SelectSeq(tr, LAMBDA e : e.ev = "ret")
    IN  [ i \in 1..Len(sel) |-> sel[i].node ]

\* The step in which root.tick() runs.
TickRootStep == pc = "begun" /\ pc' = "executed"
\* A tree-level tick with a root has run and nothing was reset since.
AfterRootTick == pc \in {"executed", "recorded"} \/ (pc = "idle" /\ trace # <<>>)

\* ------------------------------------------------------------------ claims

\* C1: when the child at a Sequence's cursor returns RUNNING, the Sequence returns
\* RUNNING in that tick, no later child is ticked and the cursor points at that
\* child; and a Sequence whose previous tick returned RUNNING ticks that same
\* child first, without ticking any earlier child.
C1_SequenceRunningChild ==
    [][ TickRootStep =>
          \A s \in Nodes : (IsSequence(s) /\ Called(trace', s)) =>
            LET k == node[s].index
                ticked == ChildCalls(trace', s)
            IN  /\ \A j \in 1..Len(ticked) :
                     RetVal(trace', ticked[j]) = RUNNING =>
                       /\ j = Len(ticked)
                       /\ RetVal(trace', s) = RUNNING
                       /\ node'[s].last_state = RUNNING
                       /\ node'[s].index < Len(Children(s))
                       /\ Children(s)[node'[s].index + 1] = ticked[j]
                /\ node[s].last_state = RUNNING =>
                     /\ ticked # <<>>
                     /\ ticked[1] = Children(s)[k + 1]
                     /\ node[ticked[1]].last_state = RUNNING
                     /\ \A j \in 1..k : ~Called(trace', Children(s)[j])
      ]_vars

\* C1 witness: a Sequence resumed at a later child: it returned RUNNING again in
\* this tick, and its first child ran in the previous tick but not in this one.
C1_Witness ==
    /\ pc = "executed"
    /\ \E s \in Nodes :
         /\ IsSequence(s) /\ Called(trace, s)
         /\ node[s].index > 0
         /\ node[s].last_state = RUNNING
         /\ node[Children(s)[1]].last_tick_id = BT_TICK_ID - 1
         /\ ~Called(trace, Children(s)[1])
         /\ Called(trace, Children(s)[node[s].index + 1])

\* C2: when a child of a Sequence returns FAILURE, the Sequence returns FAILURE,
\* its cursor is 0, no child after the failing one is ticked in that tick; and a
\* Sequence whose cursor is 0 starts its tick at its first child.
C2_SequenceFailureChild ==
    [][ TickRootStep =>
          \A s \in Nodes : (IsSequence(s) /\ Called(trace', s)) =>
            LET ticked == ChildCalls(trace', s)
            IN  /\ \A j \in 1..Len(ticked) :
                     RetVal(trace', ticked[j]) = FAILURE =>
                       /\ j = Len(ticked)
                       /\ RetVal(trace', s) = FAILURE
                       /\ node'[s].last_state = FAILURE
                       /\ node'[s].index = 0
                /\ (node[s].last_state = FAILURE /\ Children(s) # <<>>) =>
                     /\ node[s].index = 0
                     /\ ticked # <<>>
                     /\ ticked[1] = Children(s)[1]
      ]_vars

\* C2 witness: a Sequence failed at a child after its first, with the cursor back at 0.
C2_Witness ==
    /\ pc = "executed"
    /\ \E s \in Nodes :
         /\ IsSequence(s) /\ Called(trace, s)
         /\ Len(ChildCalls(trace, s)) >= 2
         /\ Len(ChildCalls(trace, s)) < Len(Children(s))
         /\ RetVal(trace, s) = FAILURE
         /\ node[s].index = 0

\* C3: when every child from the cursor to the end returns SUCCESS, they are all
\* ticked in list order in one tick, the Sequence returns SUCCESS and its cursor
\* is 0; a Sequence without children returns SUCCESS.
C3_SequenceCompletion ==
    [][ TickRootStep =>
          \A s \in Nodes : (IsSequence(s) /\ Called(trace', s)) =>
            LET k == node[s].index
                ticked == ChildCalls(trace', s)
                n == Len(Children(s))
            IN  /\ \A j \in 1..Len(ticked) : ticked[j] = Children(s)[k + j]
                /\ (\A j \in 1..Len(ticked) : RetVal(trace', ticked[j]) = SUCCESS) =>
                     /\ Len(ticked) = n - k
                     /\ RetVal(trace', s) = SUCCESS
                     /\ node'[s].last_state = SUCCESS
                     /\ node'[s].index = 0
                /\ n = 0 => RetVal(trace', s) = SUCCESS
                /\ (node[s].last_state = SUCCESS /\ n > 0) =>
                     /\ k = 0
                     /\ ticked # <<>>
                     /\ ticked[1] = Children(s)[1]
      ]_vars

\* C3 witness: a Sequence resumed at a later child and completed, and an empty
\* Sequence returned SUCCESS.
C3_Witness ==
    /\ pc = "executed"
    /\ \E s \in Nodes :
         /\ IsSequence(s) /\ Called(trace, s)
         /\ Len(Children(s)) >= 3
         /\ Len(ChildCalls(trace, s)) = 2
         /\ RetVal(trace, s) = SUCCESS
         /\ node[s].index = 0
    /\ \E e \in Nodes :
         /\ IsSequence(e) /\ Called(trace, e)
         /\ Children(e) = <<>>
         /\ RetVal(trace, e) = SUCCESS

\* C4: a Selector returns the result of its first child, in list order, whose
\* result is not FAILURE, having ticked each earlier child once and no later
\* child; when every child fails, or there is none, it returns FAILURE.
C4_SelectorResult ==
    AfterRootTick =>
      \A s \in Nodes : (IsSelector(s) /\ Called(trace, s)) =>
        LET ticked == ChildCalls(trace, s)
            n == Len(ticked)
        IN  /\ Returned(trace, s)
            /\ \A j \in 1..n : ticked[j] = Children(s)[j]
            /\ \A j \in 1..n : CallCount(trace, ticked[j]) = 1
            /\ \A j \in 1..(n - 1) : RetVal(trace, ticked[j]) = FAILURE
            /\ IF n > 0 /\ RetVal(trace, ticked[n]) # FAILURE
               THEN RetVal(trace, s) = RetVal(trace, ticked[n])
               ELSE n = Len(Children(s)) /\ RetVal(trace, s) = FAILURE

\* C4 witness: a Selector stopped at a RUNNING child that is neither its first
\* nor its last.
C4_Witness ==
    /\ pc = "executed"
    /\ \E s \in Nodes :
         /\ IsSelector(s) /\ Called(trace, s)
         /\ Len(ChildCalls(trace, s)) = 2
         /\ Len(Children(s)) = 3
         /\ RetVal(trace, s) = RUNNING

\* C5: every tick of a Selector with at least one child ticks its first child
\* first, whatever its previous tick returned.
C5_SelectorStateless ==
    AfterRootTick =>
      \A s \in Nodes : (IsSelector(s) /\ Called(trace, s) /\ Children(s) # <<>>) =>
        /\ ChildCalls(trace, s) # <<>>
        /\ ChildCalls(trace, s)[1] = Children(s)[1]

\* C5 witness: a Selector is ticked again after a later child of it returned
\* RUNNING in the previous tick, and stops at its first child this time.
C5_Witness ==
    /\ pc = "executed"
    /\ \E s \in Nodes :
         /\ IsSelector(s) /\ Called(trace, s)
         /\ Len(Children(s)) >= 2
         /\ Len(ChildCalls(trace, s)) = 1
         /\ \E j \in 2..Len(Children(s)) :
              /\ node[Children(s)[j]].last_state = RUNNING
              /\ node[Children(s)[j]].last_tick_id = BT_TICK_ID - 1

\* What the operation of leaf n returned (it was evaluated).
OpVal(tr, n) == tr[CHOOSE i \in 1..Len(tr) : tr[i].ev = "op" /\ tr[i].node = n].val

\* The step in which BehaviorTree.tick() begins (only it moves the counter).
TickBeginStep == pc = "idle" /\ BT_TICK_ID' = BT_TICK_ID + 1
\* BehaviorTree.tick() of instance cur has returned.
TickReturned == pc = "idle" /\ BT_TICK_ID > 0

\* C6: after BehaviorTree.tick() the executed-node list holds exactly the nodes
\* that completed tick() in that tick, in completion order, and its i-th node has
\* exec_index = i.
C6_ExecutedListInOrder ==
    TickReturned =>
      /\ executed[cur] = Completed(trace)
      /\ \A i \in 1..Len(executed[cur]) : node[executed[cur][i]].exec_index = i
      /\ \A i, j \in 1..Len(executed[cur]) : executed[cur][i] = executed[cur][j] => i = j

\* C6 witness: a nested tree of which some nodes ran and others were skipped.
C6_Witness ==
    /\ TickReturned
    /\ Len(executed[cur]) >= 4
    /\ Len(executed[cur]) < Cardinality(Nodes)
    /\ \E i \in 1..(Len(executed[cur]) - 1) : IsComposite(executed[cur][i])

\* C7: after a tick, is_active_path is true exactly for the nodes that executed
\* in that tick, and exec_index is 0 exactly for those that did not.
C7_ActivePathIffExecuted ==
    TickReturned =>
      \A n \in Nodes :
        /\ node[n].is_active_path <=> Returned(trace, n)
        /\ node[n].exec_index = 0 <=> ~Returned(trace, n)

\* C7 witness: a node that executed in the previous tick but not in this one,
\* next to nodes that executed in this one.
C7_Witness ==
    /\ TickReturned
    /\ trace # <<>>
    /\ \E n \in Nodes :
         /\ node[n].last_tick_id = BT_TICK_ID - 1
         /\ ~node[n].is_active_path
         /\ ~Returned(trace, n)

\* C8: when a tree-level tick begins, every node of the previous tick's tracker
\* gets is_active_path = false and exec_index = 0, and the tracker is empty,
\* before the root is ticked.
C8_TrackerResetAtBegin ==
    [][ TickBeginStep =>
          /\ \A n \in SeqToSet(tracker) :
               ~node'[n].is_active_path /\ node'[n].exec_index = 0
          /\ tracker' = <<>>
          /\ trace' = <<>>
      ]_vars

\* C8 witness: the second tick has begun, the root is not ticked yet, and a node
\* of the previous tick is reset.
C8_Witness ==
    /\ pc = "begun"
    /\ trace = <<>>
    /\ \E n \in Nodes :
         /\ node[n].last_tick_id = BT_TICK_ID - 1
         /\ node[n].last_tick_id >= 1
         /\ ~node[n].is_active_path
         /\ node[n].exec_index = 0

\* C9: for every node class, a tick() that returned s has stored s in last_state
\* and appended the node to the tracker (is_active_path true, exec_index set).
C9_EveryTickCompletes ==
    AfterRootTick =>
      \A n \in Nodes : Returned(trace, n) =>
        /\ node[n].last_state = RetVal(trace, n)
        /\ node[n].is_active_path
        /\ node[n].exec_index \in 1..Len(tracker)
        /\ tracker[node[n].exec_index] = n

\* C10: a Condition's tick evaluates the predicate once and returns SUCCESS when
\* it is true and FAILURE when it is false; its last_state is never RUNNING.
C10_ConditionMapsPredicate ==
    /\ \A n \in Nodes : IsCondition(n) => node[n].last_state # RUNNING
    /\ AfterRootTick =>
         \A n \in Nodes : (IsCondition(n) /\ Called(trace, n)) =>
           /\ OpCount(trace, n) = 1
           /\ CallCount(trace, n) = 1
           /\ Returned(trace, n)
           /\ OpVal(trace, n) = TRUE => RetVal(trace, n) = SUCCESS
           /\ OpVal(trace, n) = FALSE => RetVal(trace, n) = FAILURE
           /\ node[n].last_state = RetVal(trace, n)

\* C10 witness: in one tick one Condition was true and another false.
C10_Witness ==
    /\ pc = "executed"
    /\ \E n, m \in Nodes :
         /\ IsCondition(n) /\ Called(trace, n) /\ OpVal(trace, n) = TRUE
         /\ IsCondition(m) /\ Called(trace, m) /\ OpVal(trace, m) = FALSE
         /\ node[n].last_state = SUCCESS
         /\ node[m].last_state = FAILURE

\* C11: an Action ticked in this tick evaluated its operation once and returned
\* (no exception); when the operation returned a NodeState the tick returned exactly
\* that state, when it returned anything else the tick returned FAILURE; the state
\* returned is the node's last_state and the node is registered as executed.
C11_ActionCoercesInvalidResult ==
    AfterRootTick =>
        \A n \in Nodes :
            (IsAction(n) /\ Called(trace, n)) =>
                /\ OpCount(trace, n) = 1
                /\ Returned(trace, n)
                /\ OpVal(trace, n) \in NodeState => RetVal(trace, n) = OpVal(trace, n)
                /\ OpVal(trace, n) \notin NodeState => RetVal(trace, n) = FAILURE
                /\ node[n].last_state = RetVal(trace, n)
                /\ node[n].last_state \in NodeState
                /\ n \in SeqToSet(tracker)
                /\ node[n].is_active_path

\* An Action whose operation returned None has returned FAILURE and is registered,
\* next to an Action whose RUNNING was passed on.
C11_Witness ==
    /\ AfterRootTick
    /\ \E n, m \in Nodes :
        /\ IsAction(n) /\ Called(trace, n)
        /\ OpVal(trace, n) = None
        /\ RetVal(trace, n) = FAILURE
        /\ n \in SeqToSet(tracker)
        /\ IsAction(m) /\ Called(trace, m)
        /\ OpVal(trace, m) = RUNNING
        /\ RetVal(trace, m) = RUNNING

\* A tick() that found no root has returned: no node was ticked in the tick that
\* ended last.
NoRootTickReturned == TickReturned /\ trace = <<>>

\* C12: when a tick of a BehaviorTree without root has returned, it returned
\* FAILURE, the executed-node list is empty and the snapshot is absent, whatever an
\* earlier tick with a root had published.
C12_NoRootTick ==
    NoRootTickReturned =>
        /\ result = FAILURE
        /\ executed[cur] = <<>>
        /\ last_snapshot[cur] = <<>>

\* The tick before the rootless one ran the tree (its nodes carry the previous tick
\* id), so a snapshot and a non-empty executed list had been published.
C12_Witness ==
    /\ NoRootTickReturned
    /\ root[cur] = None
    /\ BT_TICK_ID >= 2
    /\ \E n \in Nodes : node[n].last_tick_id = BT_TICK_ID - 1
    /\ result = FAILURE
    /\ last_snapshot[cur] = <<>>

\* The nodes whose tick() returned in the tick that ended last, in that order.
ReturnedNodes(tr) ==
    LET sel == SelectSeq(tr, LAMBDA e : e.ev = "ret")
    IN  [ i \in 1..Len(sel) |-> sel[i].node ]

\* C13: between ticks the snapshot is absent exactly when no tick was performed yet
\* or the most recent tick found no root; otherwise it is the snapshot of the most
\* recent tick: it carries that tick's id and one entry per node that returned in
\* that tick, in that order.
C13_SnapshotAbsentOrLatest ==
    pc = "idle" =>
        /\ GetSnapshotValue(cur) = <<>> <=> (BT_TICK_ID = 0 \/ NoRootTickReturned)
        /\ GetSnapshotValue(cur) # <<>> =>
              LET snap == GetSnapshotValue(cur)[1]
                  ns   == SnapshotNodes(cur, snap)
                  rn   == ReturnedNodes(trace)
              IN  /\ snap.tick_id = BT_TICK_ID
                  /\ Len(ns) = Len(rn)
                  /\ \A k \in 1..Len(ns) :
                        /\ ns[k].name = Name(rn[k])
                        /\ ns[k].tick_id = BT_TICK_ID

\* A snapshot of the third tick is there, after a second tick that found no root
\* (no node carries tick id 2) and a first tick that ran the tree.
C13_Witness ==
    /\ pc = "idle"
    /\ BT_TICK_ID = 3
    /\ GetSnapshotValue(cur) # <<>>
    /\ GetSnapshotValue(cur)[1].tick_id = 3
    /\ \E n \in Nodes : node[n].last_tick_id = 1
    /\ \A n \in Nodes : node[n].last_tick_id # 2

\* C14: after a tick with a root the snapshot's node sequence has one entry per
\* executed node, its exec_index values are 1, 2, ... (strictly increasing), it is the
\* recorded sequence in the recorded order, and its i-th entry carries the
\* exec_index, name, node_type, state name and duration of the i-th executed node
\* as they were when the tick completed.
C14_SnapshotRoundTrip ==
    (TickReturned /\ trace # <<>>) =>
        LET snap == last_snapshot[cur][1]
            ns   == SnapshotNodes(cur, snap)
            ex   == executed[cur]
        IN  /\ Len(ns) = Len(ex)
            /\ Len(ex) >= 1
            /\ ns = builder[cur].records
            /\ \A k \in 1..Len(ns) :
                  /\ k > 1 => ns[k - 1].exec_index < ns[k].exec_index
                  /\ ns[k].exec_index = k
                  /\ ns[k].exec_index = node[ex[k]].exec_index
                  /\ ns[k].name = Name(ex[k])
                  /\ ns[k].node_type = Kind(ex[k])
                  /\ ns[k].duration_ms = node[ex[k]].last_duration_ms
                  /\ ns[k].state = "SUCCESS" <=> RetVal(trace, ex[k]) = SUCCESS
                  /\ ns[k].state = "FAILURE" <=> RetVal(trace, ex[k]) = FAILURE
                  /\ ns[k].state = "RUNNING" <=> RetVal(trace, ex[k]) = RUNNING
                  /\ ns[k].state \in {"SUCCESS", "FAILURE", "RUNNING"}

\* A snapshot of four or more nodes, leaves and composites, in different states and
\* with different durations.
C14_Witness ==
    /\ TickReturned /\ trace # <<>>
    /\ LET ns == SnapshotNodes(cur, last_snapshot[cur][1])
       IN  /\ Len(ns) >= 4
           /\ {"SUCCESS", "RUNNING"} \subseteq { ns[k].state : k \in 1..Len(ns) }
           /\ \E k, l \in 1..Len(ns) : 0 < ns[k].duration_ms /\ ns[k].duration_ms < ns[l].duration_ms
           /\ \E k \in 1..Len(ns) : ns[k].node_type = "Action"
           /\ \E k \in 1..Len(ns) : ns[k].node_type = "Selector"

\* A tick with a root has returned and its snapshot is published.
RootTickReturned == TickReturned /\ trace # <<>>

\* C15: in the snapshot published by a tick, by_path has an entry under the path_id
\* of every executed node, and that entry is the NodeSnapshot of that node (its
\* name and its exec_index).
C15_ByPathFindsEveryNode ==
    RootTickReturned =>
        LET snap == last_snapshot[cur][1]
            ex   == executed[cur]
        IN  \A k \in 1..Len(ex) :
                /\ node[ex[k]].path_id \in DOMAIN snap.by_path
                /\ snap.by_path[node[ex[k]].path_id].name = Name(ex[k])
                /\ snap.by_path[node[ex[k]].path_id].exec_index = k

\* C16: after the first tick with a root, every executed node and its NodeSnapshot
\* carry the hash of the node's name-path from the root as path_id, not 0.
C16_PathIdAssignedByFirstTick ==
    (RootTickReturned /\ BT_TICK_ID = 1) =>
        LET ns == SnapshotNodes(cur, last_snapshot[cur][1])
            ex == executed[cur]
        IN  \A k \in 1..Len(ex) :
                /\ node[ex[k]].path_id = hash64(JoinPath(NamePath(ex[k])))
                /\ node[ex[k]].path_id # 0
                /\ ns[k].path_id = node[ex[k]].path_id

\* A node's path_id counts as assigned once it is not the constructor's 0.
\* C17: an assigned path_id is never changed: not by any step of a tick, not by a
\* later snapshot-building pass, whatever happens to the node's other fields.
C17_PathIdStable ==
    [][ \A n \in Nodes : node[n].path_id # 0 => node'[n].path_id = node[n].path_id ]_vars

\* Every path_id of the tree is assigned and is the hash of the node's name-path,
\* after a later tick has left a node RUNNING, a Sequence cursor advanced and time
\* spent, and two ticks have run.
C17_Witness ==
    /\ pc = "idle"
    /\ BT_TICK_ID >= 2
    /\ \A n \in Nodes : node[n].path_id = hash64(JoinPath(NamePath(n)))
    /\ \A n \in Nodes : node[n].path_id # 0
    /\ \E n \in Nodes : node[n].last_state = RUNNING /\ node[n].last_tick_id = BT_TICK_ID
    /\ \E n \in Nodes : IsSequence(n) /\ node[n].index > 0
    /\ \E n \in Nodes : node[n].accumulated_ms > 0
    /\ \E k \in 1..Len(SnapshotNodes(cur, last_snapshot[cur][1])) :
           SnapshotNodes(cur, last_snapshot[cur][1])[k].path_id # 0

\* C18: once a tree has been ticked, any two of its nodes with distinct name-paths
\* from the root have different path_id values.
C18_DistinctPathsDistinctIds ==
    RootTickReturned =>
        \A n, m \in Nodes :
            NamePath(n) # NamePath(m) => node[n].path_id # node[m].path_id

\* What the consumer sees in the snapshot it holds (<<>> when it holds none).
HeldData(i) == IF held[i] = <<>> THEN <<>> ELSE << SnapshotData(i, held[i][1]) >>
\* The step is a get_snapshot() call on instance i.
ReadStep(i) == reads'[i] = reads[i] + 1

\* C19: whatever step is taken that is not the consumer reading again (any step of
\* any later tick), the snapshot the consumer holds keeps its tick_id, its node
\* sequence and every field of every NodeSnapshot in it.
C19_HeldSnapshotNeverChanges ==
    [][ \A i \in Insts :
            (held[i] # <<>> /\ ~ReadStep(i)) => HeldData(i)' = HeldData(i) ]_vars

\* The snapshot of tick 1 is still held after tick 3 has been published; a node it
\* describes is in another state by now.
C19_Witness ==
    /\ pc = "idle"
    /\ BT_TICK_ID = 3
    /\ held[cur] # <<>>
    /\ last_snapshot[cur] # <<>>
    /\ held[cur][1].tick_id = 1
    /\ last_snapshot[cur][1].tick_id = 3
    /\ LET ns == HeldData(cur)[1].nodes
       IN  /\ Len(ns) >= 2
           /\ \E k \in 1..Len(ns) : \E n \in Nodes :
                 /\ Name(n) = ns[k].name
                 /\ StateName(node[n].last_state) # ns[k].state
                 /\ node[n].exec_index # ns[k].exec_index

\* C20: a get_snapshot() call returns the current snapshot and changes neither the
\* snapshot nor any node, tracker, builder or tree state; a call that follows
\* another with no step of a tick in between returns data equal to the first.
C20_ReadIdempotent ==
    [][ \A i \in Insts :
            ReadStep(i) =>
                /\ held'[i] = GetSnapshotValue(i)
                /\ UNCHANGED << last_snapshot, node, tracker, executed, builder,
                                BT_TICK_ID, root, pc, result >>
                /\ reads[i] >= 1 => HeldData(i)' = HeldData(i) ]_vars

\* Two reads in a row after a tick, both holding that tick's snapshot.
C20_Witness ==
    /\ pc = "idle"
    /\ reads[cur] = 2
    /\ held[cur] # <<>>
    /\ held[cur] = last_snapshot[cur]
    /\ Len(HeldData(cur)[1].nodes) >= 2

\* The step is the start of a BehaviorTree.tick() call (under Spec, whose only other
\* step between ticks assigns root).
TickStartStep == pc = "idle" /\ root' = root
\* The step publishes the snapshot of the tick in flight.
PublishStep == pc = "recorded" /\ pc' = "idle"

\* The node sequence of the snapshot that instance cur has published.
PublishedNodes == SnapshotNodes(cur, last_snapshot[cur][1])

\* C21: every tick() call raises the global counter by exactly 1 before the root is
\* ticked, with or without a root; the counter never goes down; the snapshot a tick
\* publishes and every NodeSnapshot in it carry the new counter value as tick_id,
\* which is larger than the tick_id of the snapshot it replaces.
C21_TickIdAdvances ==
    [][ /\ TickStartStep => (BT_TICK_ID' = BT_TICK_ID + 1 /\ trace' = <<>>)
        /\ BT_TICK_ID' >= BT_TICK_ID
        /\ PublishStep =>
              LET new == last_snapshot'[cur][1]
                  ns  == PublishedNodes'
              IN  /\ new.tick_id = BT_TICK_ID
                  /\ new.tick_id >= 1
                  /\ Len(ns) >= 1
                  /\ \A k \in 1..Len(ns) : ns[k].tick_id = BT_TICK_ID
                  /\ last_snapshot[cur] # <<>> =>
                        last_snapshot[cur][1].tick_id < new.tick_id ]_vars

\* The snapshot of tick 3 is published, after a second tick that found no root and
\* still took the counter from 1 to 2.
C21_Witness ==
    /\ pc = "idle"
    /\ BT_TICK_ID = 3
    /\ last_snapshot[cur] # <<>>
    /\ last_snapshot[cur][1].tick_id = 3
    /\ \A k \in 1..Len(SnapshotNodes(cur, last_snapshot[cur][1])) :
           SnapshotNodes(cur, last_snapshot[cur][1])[k].tick_id = 3
    /\ \E n \in Nodes : node[n].last_tick_id = 1
    /\ \A n \in Nodes : node[n].last_tick_id # 2
    /\ \E n \in Nodes : node[n].last_tick_id = 3

\* C22: after any tick a node's last_tick_id is the id of the most recent tick in
\* which it executed: the current counter exactly for the nodes executed in the
\* latest tick, a smaller tick id for nodes executed only earlier, -1 for nodes
\* never executed; a root tick stamps the nodes that return in it with the current
\* counter and leaves the stamp of every other node alone.
C22_LastTickId ==
    /\ [] ( TickReturned =>
             \A n \in Nodes :
                /\ n \in SeqToSet(tracker) <=> node[n].last_tick_id = BT_TICK_ID
                /\ (n \notin SeqToSet(tracker) /\ node[n].last_state # None) =>
                       (1 <= node[n].last_tick_id /\ node[n].last_tick_id < BT_TICK_ID)
                /\ node[n].last_state = None <=> node[n].last_tick_id = -1 )
    /\ [][ \A n \in Nodes :
                IF TickRootStep /\ Returned(trace', n)
                THEN node'[n].last_tick_id = BT_TICK_ID
                ELSE node'[n].last_tick_id = node[n].last_tick_id ]_vars

\* After the third tick: nodes stamped 3, a node last executed in tick 1 and a node
\* that never executed.
C22_Witness ==
    /\ TickReturned
    /\ BT_TICK_ID = 3
    /\ \E n \in Nodes : node[n].last_tick_id = 3 /\ n \in SeqToSet(tracker)
    /\ \E n \in Nodes : node[n].last_tick_id = 1 /\ node[n].last_state # None
    /\ \E n \in Nodes : node[n].last_tick_id = -1

\* C23: accumulated_ms of a node never decreases; in a root tick it grows by exactly
\* the node's new last_duration_ms (which is not negative) when the node completes,
\* and stays as it is when the node does not complete or no node is ticked.
C23_AccumulatedDuration ==
    [][ \A n \in Nodes :
            /\ node'[n].accumulated_ms >= node[n].accumulated_ms
            /\ node[n].accumulated_ms >= 0
            /\ (TickRootStep /\ Returned(trace', n)) =>
                   /\ node'[n].last_duration_ms >= 0
                   /\ node'[n].accumulated_ms =
                          node[n].accumulated_ms + node'[n].last_duration_ms
            /\ ~(TickRootStep /\ Returned(trace', n)) =>
                   /\ node'[n].accumulated_ms = node[n].accumulated_ms
                   /\ node'[n].last_duration_ms = node[n].last_duration_ms ]_vars

\* A node has completed two ticks that both took time: its total is larger than its
\* last duration.
C23_Witness ==
    /\ TickReturned
    /\ BT_TICK_ID >= 2
    /\ \E n \in Nodes :
          /\ node[n].last_tick_id = BT_TICK_ID
          /\ node[n].last_duration_ms > 0
          /\ node[n].accumulated_ms > node[n].last_duration_ms

\* C24: in a tree of Sequence, Selector, Condition and Action nodes, root.tick()
\* evaluates to SUCCESS, FAILURE or RUNNING whatever the leaf operations return;
\* once it has run, every tick() entered during it has returned, no node was
\* entered twice, and what BehaviorTree.tick() returns is the root's state.
C24_TickTotal ==
    /\ pc = "begun" =>
          \A in \in Inputs :
              LET r == Tick([ node |-> node, tracker |-> tracker, trace |-> trace,
                              now |-> clock, tick |-> BT_TICK_ID ], root[cur], in)
              IN  /\ r.state \in NodeState
                  /\ r.state = RetVal(r.h.trace, root[cur])
    /\ AfterRootTick =>
          /\ result \in NodeState
          /\ \A n \in Nodes : Called(trace, n) => Returned(trace, n)
          /\ \A n \in Nodes : CallCount(trace, n) <= 1
          /\ result = RetVal(trace, trace[1].node)
    /\ TickReturned => result \in NodeState

\* Ticks have returned each of the three states: this one RUNNING after a tick that
\* left a node in SUCCESS and another in FAILURE.
C24_Witness ==
    /\ TickReturned
    /\ result = RUNNING
    /\ \E n \in Nodes : IsComposite(n) /\ node[n].last_state = RUNNING
    /\ \E n \in Nodes : node[n].last_state = SUCCESS
    /\ \E n \in Nodes : node[n].last_state = FAILURE

\* tick() of n was left by NotImplementedError in the tick history tr.
RaisedIn(tr, n) == \E i \in 1..Len(tr) : tr[i].ev = "raise" /\ tr[i].node = n

\* C25: when tick() of a base Node, or of a Condition or Action without its
\* operation, was entered, it ended in the fault and returned no NodeState; the
\* faulting node is not in the tracker, not on the active path, and its last_state
\* is still unset; the fault is what BehaviorTree.tick() ended with.
C25_UnimplementedFaults ==
    \A n \in Nodes :
        (IsUnimplemented(n) /\ Called(trace, n)) =>
            /\ RaisedIn(trace, n)
            /\ ~Returned(trace, n)
            /\ n \notin SeqToSet(tracker)
            /\ ~node[n].is_active_path
            /\ node[n].exec_index = 0
            /\ node[n].last_state = None
            /\ node[n].last_tick_id = -1
            /\ result = Raised
            /\ result \notin NodeState
            /\ pc = "idle"

\* The unimplemented Action was reached after a sibling had completed and
\* registered; the fault went through the Sequence and the Selector above it.
C25_Witness ==
    /\ \E n \in Nodes : Kind(n) = "BaseAction" /\ RaisedIn(trace, n) /\ node[n].last_state = None
    /\ \E m \in Nodes : IsAction(m) /\ Returned(trace, m) /\ m \in SeqToSet(tracker)
    /\ \E s \in Nodes : IsSelector(s) /\ Called(trace, s) /\ ~Returned(trace, s)
    /\ result = Raised

\* What a reader of instance i would get now (<<>> when the snapshot is absent).
CurrentData(i) ==
    IF last_snapshot[i] = <<>> THEN <<>> ELSE << SnapshotData(i, last_snapshot[i][1]) >>
\* A tick() call is in flight.
InFlight == pc \in {"begun", "executed", "recorded"}

\* C26: whatever a reader obtained, at any point of a tick, is absent or a complete
\* snapshot: entries 1, 2, ... of one tick, ending with the root's entry; while a
\* tick is in flight it is a snapshot of an earlier tick.  The snapshot reference
\* changes only in the publish step (once per tick, after all records are built:
\* one per tracked node) or when a rootless tick clears it, and what the reference
\* shows does not change in between.
C26_ReaderSeesCompleteSnapshot ==
    /\ [] ( \A i \in Insts :
               held[i] # <<>> =>
                   LET d == HeldData(i)[1]
                   IN  /\ Len(d.nodes) >= 1
                       /\ d.nodes[Len(d.nodes)].name = Name(Sh.roots[i])
                       /\ \A k \in 1..Len(d.nodes) :
                             /\ d.nodes[k].exec_index = k
                             /\ d.nodes[k].tick_id = d.tick_id
                       /\ d.tick_id <= BT_TICK_ID
                       /\ InFlight => d.tick_id < BT_TICK_ID )
    /\ [][ \A i \in Insts :
              /\ CurrentData(i)' # CurrentData(i) =>
                    \/ PublishStep /\ i = cur /\ Len(PublishedNodes') = Len(tracker)
                    \/ pc = "idle" /\ pc' = "idle" /\ root[i] = None
                         /\ last_snapshot'[i] = <<>>
              /\ PublishStep =>
                    /\ last_snapshot'[cur] # <<>>
                    /\ last_snapshot'[cur][1].tick_id = BT_TICK_ID ]_vars

\* While tick 2 is in flight with its records built but not yet published, the
\* reader has just read: it holds the complete snapshot of tick 1.
C26_Witness ==
    /\ pc = "recorded"
    /\ BT_TICK_ID = 2
    /\ reads[cur] >= 1
    /\ held[cur] # <<>>
    /\ held[cur] = last_snapshot[cur]
    /\ held[cur][1].tick_id = 1
    /\ Len(builder[cur].records) >= 2
    /\ Len(HeldData(cur)[1].nodes) >= 2

\* The nodes of the tree below r.
RECURSIVE Subtree(_)
Subtree(r) == {r} \cup UNION { Subtree(Children(r)[j]) : j \in 1..Len(Children(r)) }

\* C27: tracker and counter are shared by the trees of the process.  The start of
\* any tree's tick raises the one counter by 1 and resets is_active_path and
\* exec_index on every tracked node, the other tree's nodes included; nodes of
\* different trees never carry the same tick id, nor do the snapshots of two
\* instances.
C27_SharedTrackerAndCounter ==
    /\ [] ( /\ \A n \in Subtree(Sh.roots[1]) : \A m \in Nodes \ Subtree(Sh.roots[1]) :
                   node[n].last_tick_id >= 1 => node[n].last_tick_id # node[m].last_tick_id
            /\ \A i, j \in Insts :
                   (i # j /\ last_snapshot[i] # <<>> /\ last_snapshot[j] # <<>>) =>
                       last_snapshot[i][1].tick_id # last_snapshot[j][1].tick_id
            /\ \A i \in Insts :
                   last_snapshot[i] # <<>> => last_snapshot[i][1].tick_id <= BT_TICK_ID )
    /\ [][ TickStartStep =>
              /\ BT_TICK_ID' = BT_TICK_ID + 1
              /\ builder'[cur'].tick_id = BT_TICK_ID + 1
              /\ tracker' = <<>>
              /\ \A n \in SeqToSet(tracker) :
                    /\ ~node'[n].is_active_path
                    /\ node'[n].exec_index = 0 ]_vars

\* The second instance has just ticked its own tree as tick 2: the nodes the first
\* instance executed in tick 1 are reset, although the first instance's executed
\* list and snapshot (tick_id 1) still name them.
C27_Witness ==
    /\ pc = "idle"
    /\ cur = 2
    /\ BT_TICK_ID = 2
    /\ root[1] = Sh.roots[1] /\ root[2] = Sh.roots[2]
    /\ executed[1] # <<>>
    /\ \A k \in 1..Len(executed[1]) :
          /\ executed[1][k] \in Subtree(Sh.roots[1])
          /\ node[executed[1][k]].last_tick_id = 1
          /\ ~node[executed[1][k]].is_active_path
          /\ node[executed[1][k]].exec_index = 0
    /\ last_snapshot[1] # <<>> /\ last_snapshot[1][1].tick_id = 1
    /\ last_snapshot[2] # <<>> /\ last_snapshot[2][1].tick_id = 2
    /\ \A n \in SeqToSet(tracker) : n \in Subtree(Sh.roots[2])

\* C28: in a published snapshot, the entry of a node that carries a parent reference
\* has the parent's path_id (as recorded in the same snapshot) as parent_path_id,
\* and the entry of a node without parent reference has 0.
C28_ParentPathId ==
    RootTickReturned =>
        LET ns == PublishedNodes
            ex == executed[cur]
        IN  \A k \in 1..Len(ex) :
                IF ParentRef(ex[k]) = None
                THEN ns[k].parent_path_id = 0
                ELSE \E j \in 1..Len(ex) :
                        /\ ex[j] = ParentRef(ex[k])
                        /\ ex[j] = Parent(ex[k])
                        /\ ns[k].parent_path_id = ns[j].path_id

\* Path ids were assigned before the tick: a child's entry carries the hash of its
\* parent's path, the root's entry carries 0.
C28_Witness ==
    /\ RootTickReturned
    /\ \E k \in 1..Len(executed[cur]) :
          /\ ParentRef(executed[cur][k]) # None
          /\ PublishedNodes[k].parent_path_id # 0
          /\ PublishedNodes[k].parent_path_id =
                hash64(JoinPath(NamePath(Parent(executed[cur][k]))))
          /\ PublishedNodes[k].parent_path_id # PublishedNodes[k].path_id
    /\ \E k \in 1..Len(executed[cur]) :
          /\ ParentRef(executed[cur][k]) = None
          /\ PublishedNodes[k].path_id # 0
          /\ PublishedNodes[k].parent_path_id = 0

\* C29: a Sequence that is not ticked in a tree-level tick keeps its cursor, and no
\* other step touches a cursor; a Sequence with cursor k > 0 that was skipped in
\* the previous tick (its last_tick_id is older) is still RUNNING, and when it is
\* ticked again its first child call goes to child k and children 0..k-1 are not
\* ticked.
C29_StaleCursorKept ==
    [][ \A s \in Nodes :
          IsSequence(s) =>
            /\ ~(TickRootStep /\ Called(trace', s)) => node'[s].index = node[s].index
            /\ (TickRootStep /\ Called(trace', s) /\ node[s].index > 0
                   /\ node[s].last_tick_id < BT_TICK_ID - 1) =>
                  /\ node[s].last_state = RUNNING
                  /\ ChildCalls(trace', s)[1] = Children(s)[node[s].index + 1]
                  /\ \A j \in 1..node[s].index : ~Called(trace', Children(s)[j]) ]_vars

\* Tick 1 left the Sequence RUNNING at its second child; the snapshot of tick 2,
\* which a reader still holds, has no entry of the Sequence (the Selector stopped
\* at P); tick 3 has ticked the Sequence again, starting at the second child.
C29_Witness ==
    /\ pc = "executed"
    /\ BT_TICK_ID = 3
    /\ held[cur] # <<>>
    /\ held[cur][1].tick_id = 2
    /\ \A k \in 1..Len(HeldData(cur)[1].nodes) : HeldData(cur)[1].nodes[k].name # "Work"
    /\ \E s \in Nodes :
          /\ IsSequence(s) /\ Name(s) = "Work"
          /\ Called(trace, s)
          /\ ChildCalls(trace, s)[1] = Children(s)[2]
          /\ ~Called(trace, Children(s)[1])
          /\ node[Children(s)[1]].last_tick_id = 1
          /\ node[s].last_tick_id = 3

\* C30: between ticks every Sequence's cursor is at least 0, below the number of
\* children (0 when there are none), and non-zero only when the Sequence's
\* last_state is RUNNING.
C30_CursorInRange ==
    pc = "idle" =>
        \A s \in Nodes :
            IsSequence(s) =>
                /\ node[s].index >= 0
                /\ Children(s) # <<>> => node[s].index < Len(Children(s))
                /\ Children(s) = <<>> => node[s].index = 0
                /\ node[s].index # 0 => node[s].last_state = RUNNING

\* Between ticks: a Sequence RUNNING with its cursor past its first child, next to
\* an empty Sequence that has succeeded, with cursor 0.
C30_Witness ==
    /\ pc = "idle"
    /\ BT_TICK_ID >= 2
    /\ \E s \in Nodes :
          /\ IsSequence(s)
          /\ Len(Children(s)) >= 2
          /\ node[s].index >= 1
          /\ node[s].last_state = RUNNING
    /\ \E s \in Nodes :
          /\ IsSequence(s) /\ Children(s) = <<>>
          /\ node[s].index = 0 /\ node[s].last_state = SUCCESS

\* The 1-based position of n in the list ex (n occurs in it).
PosIn(ex, n) == CHOOSE k \in 1..Len(ex) : ex[k] = n

\* C31: in the executed list of a tick, every node that has a parent in the tree
\* is accompanied by that parent, which stands later in the list and has a strictly
\* larger exec_index; a non-empty list therefore holds the ticked root, and the
\* executed nodes form a connected subtree.
C31_ParentExecutedAfterChild ==
    RootTickReturned =>
        LET ex == executed[cur]
        IN  /\ trace[1].node \in SeqToSet(ex)
            /\ \A n \in SeqToSet(ex) :
                  Parent(n) # None =>
                    /\ Parent(n) \in SeqToSet(ex)
                    /\ PosIn(ex, n) < PosIn(ex, Parent(n))
                    /\ node[n].exec_index < node[Parent(n)].exec_index

\* C31 witness: a tick that executed a leaf two levels below the root, its parent
\* and the root, while a sibling subtree did not execute.
C31_Witness ==
    /\ RootTickReturned
    /\ \E n \in SeqToSet(executed[cur]) :
          /\ Parent(n) # None
          /\ Parent(Parent(n)) # None
          /\ node[n].exec_index < node[Parent(n)].exec_index
          /\ node[Parent(n)].exec_index < node[Parent(Parent(n))].exec_index
    /\ \E n \in Nodes : n \notin SeqToSet(executed[cur])

\* C32: when BehaviorTree.tick() has returned on a tree with a root, the root is
\* the last node of the executed list and its exec_index is the length of the
\* list; the returned value is the root's last_state, and the last NodeSnapshot of
\* the published snapshot is the root's, with that state as its state string.
C32_RootLastAndReturned ==
    RootTickReturned =>
        LET ex == executed[cur]
            r  == trace[1].node
            ns == SnapshotNodes(cur, last_snapshot[cur][1])
        IN  /\ ex # <<>>
            /\ ex[Len(ex)] = r
            /\ node[r].exec_index = Len(ex)
            /\ result = node[r].last_state
            /\ Len(ns) = Len(ex)
            /\ ns[Len(ns)].name = Name(r)
            /\ ns[Len(ns)].exec_index = Len(ex)
            /\ ns[Len(ns)].state = StateName(result)

\* C32 witness: a later tick of a composite root returned another state than the
\* tick before it left in a child, with several nodes executed.
C32_Witness ==
    /\ RootTickReturned
    /\ BT_TICK_ID >= 2
    /\ IsComposite(trace[1].node)
    /\ Len(executed[cur]) >= 3
    /\ result = RUNNING
    /\ \E n \in Nodes : node[n].last_state = SUCCESS /\ node[n].last_tick_id < BT_TICK_ID
                          /\ node[n].last_tick_id > 0

\* The results a node carries from the last tick() it ran, and its cursor.
KeptFields(nd, n) ==
    << nd[n].last_state, nd[n].last_duration_ms, nd[n].accumulated_ms,
       nd[n].last_tick_id, nd[n].index >>

\* C33: a tree-level tick changes last_state, last_duration_ms, accumulated_ms,
\* last_tick_id and the Sequence cursor only of the nodes whose tick() runs in it;
\* for every other node each step of the tick leaves these fields as they were
\* (begin_new_tick resets at most is_active_path and exec_index).
C33_SkippedNodesKeepResults ==
    [][ \A n \in Nodes :
          \/ pc = "begun" /\ Called(trace', n)
          \/ KeptFields(node', n) = KeptFields(node, n) ]_vars

\* C33 witness: a tick has returned in which a Sequence was skipped; it still shows
\* RUNNING and its cursor of the tick before, off the active path.
C33_Witness ==
    /\ RootTickReturned
    /\ BT_TICK_ID = 2
    /\ \E n \in Nodes :
          /\ IsSequence(n)
          /\ ~Called(trace, n)
          /\ node[n].last_state = RUNNING
          /\ node[n].last_tick_id = 1
          /\ node[n].index > 0
          /\ ~node[n].is_active_path
          /\ node[n].exec_index = 0

\* Some leaf operation raised in the history tr.
Faulted(tr) == \E i \in 1..Len(tr) : tr[i].ev = "raise"

\* C34: when a leaf operation raises during BehaviorTree.tick(), the call ends with
\* the exception; the executed list and the snapshot a reader gets are untouched
\* by the start of the tick and by the faulting descent, so they are still those
\* of the tick completed before (of an older tick id than the counter, which has
\* advanced), while the tracker holds exactly the nodes that completed before the
\* fault.
C34_FaultKeepsPreviousResults ==
    /\ [] ( (pc = "begun" \/ (pc = "idle" /\ result = Raised)) =>
               /\ BT_TICK_ID >= 1
               /\ last_snapshot[cur] # <<>> => last_snapshot[cur][1].tick_id < BT_TICK_ID
               /\ result = Raised => tracker = Completed(trace) )
    /\ [][ /\ (pc = "idle" /\ pc' = "begun") =>
               /\ BT_TICK_ID' = BT_TICK_ID + 1
               /\ executed' = executed
               /\ \A i \in Insts : CurrentData(i)' = CurrentData(i)
           /\ (pc = "begun" /\ Faulted(trace')) =>
               /\ result' = Raised
               /\ pc' = "idle"
               /\ executed' = executed
               /\ \A i \in Insts : CurrentData(i)' = CurrentData(i)
               /\ BT_TICK_ID' = BT_TICK_ID
               /\ tracker' = Completed(trace')
               /\ \A n \in Nodes : RaisedIn(trace', n) => n \notin SeqToSet(tracker') ]_vars

\* C34 witness: tick 2 ended with a fault after a node had completed; the snapshot
\* and the executed list are those of tick 1, and differ from the tracker.
C34_Witness ==
    /\ pc = "idle"
    /\ result = Raised
    /\ BT_TICK_ID = 2
    /\ last_snapshot[cur] # <<>>
    /\ last_snapshot[cur][1].tick_id = 1
    /\ Len(SnapshotNodes(cur, last_snapshot[cur][1])) >= 2
    /\ Len(executed[cur]) >= 2
    /\ tracker # <<>>
    /\ tracker # executed[cur]

\* The step in which some BehaviorTree is replaced by a newly constructed one: no
\* tick starts or runs, and an instance's own fields go back to their constructor
\* values.
ConstructStep ==
    /\ pc = "idle" /\ pc' = "idle"
    /\ BT_TICK_ID' = BT_TICK_ID
    /\ << executed', last_snapshot', builder' >> # << executed, last_snapshot, builder >>

\* C35: every BehaviorTree instance has the module-level root BT_ROOT as its root,
\* so all instances stand on the same nodes; constructing a BehaviorTree changes
\* no field of any node: the Sequence cursors, last_state, accumulated_ms and all
\* the rest are after the construction what they were before it.
C35_ConstructionResetsNoNode ==
    /\ [] ( \A i \in Insts : root[i] = BT_ROOT )
    /\ [][ ConstructStep =>
             /\ node' = node
             /\ \A n \in Nodes : KeptFields(node', n) = KeptFields(node, n)
             /\ tracker' = tracker ]_vars

\* C35 witness: both instances are newly constructed (no executed list, no
\* snapshot) after ticks have run, and the shared Sequence still sits at its second
\* child, RUNNING, with time accumulated.
C35_Witness ==
    /\ pc = "idle"
    /\ BT_TICK_ID >= 1
    /\ \A i \in Insts : executed[i] = <<>> /\ last_snapshot[i] = <<>>
                          /\ builder[i] = NewBuilder
    /\ \E n \in Nodes :
          /\ IsSequence(n)
          /\ node[n].index = 1
          /\ node[n].last_state = RUNNING
          /\ node[n].accumulated_ms > 0

\* C36: of two executed nodes with the same name-path from the root, both have the
\* same path_id and both have their NodeSnapshot in the snapshot's node sequence,
\* while by_path holds under that path_id the NodeSnapshot of the one with the
\* larger exec_index.
C36_SameNamePathLastWins ==
    RootTickReturned =>
        LET snap == last_snapshot[cur][1]
            ns   == SnapshotNodes(cur, snap)
            ex   == executed[cur]
        IN  \A n, m \in SeqToSet(ex) :
                (NamePath(n) = NamePath(m) /\ node[n].exec_index < node[m].exec_index) =>
                    /\ node[n].path_id = node[m].path_id
                    /\ ns[node[n].exec_index].name = Name(n)
                    /\ ns[node[m].exec_index].name = Name(m)
                    /\ ns[node[n].exec_index].path_id = ns[node[m].exec_index].path_id
                    /\ node[m].path_id \in DOMAIN snap.by_path
                    /\ snap.by_path[node[m].path_id] = ns[node[m].exec_index]

\* The names of the nodes of the list ex, in order.
NamesOf(ex) == [ k \in 1..Len(ex) |-> Name(ex[k]) ]

\* C37: on the tree of BuildBehaviorTree with its default leaf outcomes, every tick
\* with the root returns SUCCESS and executes the same 19 nodes in the same order,
\* from IsLoadingScreen to ROOT (exec_index 19), ending through FollowerFormation
\* and FollowerBranch; WaitLoading, WaitMapReady and every leaf behind a failing
\* Condition are never executed, and after each tick every Sequence cursor is 0.
C37_DefaultTreeTick ==
    /\ RootTickReturned =>
          /\ result = SUCCESS
          /\ NamesOf(executed[cur]) =
                << "IsLoadingScreen", "HandleLoading", "MapNotReady", "HandleMapNotReady",
                   "DetectEnemiesInRange", "LeaderCombat", "DetectLootNearby", "LeaderLoot",
                   "HasMovementCommand", "LeaderMovement", "LeaderBranch",
                   "EnemyThreatDetected", "FollowerEmergencyCombat",
                   "GetLeaderPosition", "ComputeFormationOffset", "MoveToOffset",
                   "FollowerFormation", "FollowerBranch", "ROOT" >>
          /\ node[trace[1].node].exec_index = 19
          /\ \A n \in Nodes :
                Name(n) \in {"FollowerFormation", "FollowerBranch", "ROOT"} =>
                    node[n].last_state = SUCCESS
    /\ \A n \in Nodes :
          Name(n) \in { "WaitLoading", "WaitMapReady", "SelectBestTarget",
                        "MoveIntoCombatPosition", "UseSkills", "AttackTarget",
                        "MoveAndPickup", "MoveToCommandPoint", "DefendSelf",
                        "UseQuickSkill", "FollowerRecovery", "IsTooFarFromLeader",
                        "SprintToLeader" } =>
              /\ node[n].last_state = None
              /\ node[n].last_tick_id = -1
              /\ ~Called(trace, n)
    /\ pc = "idle" => \A n \in Nodes : IsSequence(n) => node[n].index = 0

\* C37 witness: the third tick of the default tree has returned.
C37_Witness ==
    /\ RootTickReturned
    /\ BT_TICK_ID = 3
    /\ Len(executed[cur]) = 19
    /\ result = SUCCESS
    /\ \A n \in SeqToSet(executed[cur]) : node[n].last_tick_id = 3

\* How many ticks of the window's tree the history tr of a frame holds.
TicksIn(tr) == CallCount(tr, BT_ROOT)
\* The node of a given name (in a tree whose names are all different).
NodeNamed(s) == CHOOSE n \in Nodes : Name(n) = s
\* The window stands on the tree built in BT_DebugUI.py.
DraftTree == shape \in DraftTreeShapes

\* C38: on the tree built in BT_DebugUI.py every tick returns RUNNING.  The first
\* tick executes IsLoadingScreen, WaitLoading, HandleLoading, ROOT in that order;
\* every later tick executes WaitLoading, HandleLoading, ROOT and does not
\* evaluate IsLoadingScreen; no node outside HandleLoading is ever ticked.
C38_DraftTreeStaysInLoading ==
    /\ [] ( DraftTree =>
               /\ node[BT_ROOT].last_state \in {None, RUNNING}
               /\ node[BT_ROOT].last_state # None => result = RUNNING
               /\ \A n \in Nodes :
                     Name(n) \notin {"ROOT", "HandleLoading", "IsLoadingScreen", "WaitLoading"}
                         => node[n].last_state = None /\ ~Called(trace, n) )
    /\ [][ (DraftTree /\ TicksIn(trace') >= 1) =>
             /\ TicksIn(trace') = 1
             /\ result' = RUNNING
             /\ IF node[BT_ROOT].last_state = None
                THEN /\ NamesOf(executed'[1]) =
                          << "IsLoadingScreen", "WaitLoading", "HandleLoading", "ROOT" >>
                     /\ OpCount(trace', NodeNamed("IsLoadingScreen")) = 1
                ELSE /\ NamesOf(executed'[1]) = << "WaitLoading", "HandleLoading", "ROOT" >>
                     /\ ~Called(trace', NodeNamed("IsLoadingScreen"))
                     /\ OpCount(trace', NodeNamed("WaitLoading")) = 1 ]_vars

\* C38 witness: a later tick has run, after "Reset Tree": IsLoadingScreen still
\* shows the SUCCESS of the first tick, off the active path, and the executed list
\* is WaitLoading, HandleLoading, ROOT.
C38_Witness ==
    /\ DraftTree
    /\ trace # <<>>
    /\ trace[1].val = TRUE
    /\ result = RUNNING
    /\ Len(executed[1]) = 3
    /\ node[NodeNamed("IsLoadingScreen")].last_state = SUCCESS
    /\ ~node[NodeNamed("IsLoadingScreen")].is_active_path
    /\ node[NodeNamed("HandleLoading")].index = 1
    /\ node[BT_ROOT].exec_index = 3

\* Whether "Reset Tree" was pressed in the frame whose history is tr (BT_DebugUI.py).
ResetPressed(tr) == tr[1].val

\* C39: in the window of BT_DebugUI.py a frame ticks the tree at most once, and
\* exactly once while `finished` is false (also when "Reset Tree" has just made it
\* false).  A tick that returns another state than RUNNING sets `finished`; while
\* it is set, a frame without "Reset Tree" ticks nothing and leaves it set.
C39_WindowTicksUntilFinished ==
    /\ [] ( finished => result \in {SUCCESS, FAILURE} )
    /\ [][ /\ TicksIn(trace') <= 1
           /\ ~finished => TicksIn(trace') = 1
           /\ ResetPressed(trace') => TicksIn(trace') = 1
           /\ (finished /\ ~ResetPressed(trace')) =>
                 /\ TicksIn(trace') = 0
                 /\ finished'
                 /\ node' = node
                 /\ result' = result
           /\ TicksIn(trace') = 1 => finished' = (result' # RUNNING) ]_vars

\* C39 witness: a frame without "Reset Tree" was drawn while `finished` was set by
\* a failed tick: it ticked nothing.
C39_Witness ==
    /\ finished
    /\ trace = << Ev("frame", None, FALSE) >>
    /\ result = FAILURE
    /\ node[BT_ROOT].last_state = FAILURE
    /\ Len(executed[1]) >= 2

\* The frame whose history is tr (Widgets/BT_Debugger.py): was "Reset Tree"
\* pressed, what did the "Live Tick" checkbox return, and what did the ticks of
\* the tree return, in order.
WidgetPressed(tr) == tr[1].val[1]
WidgetLive(tr) == tr[1].val[2]
RootReturns(tr) ==
    LET sel == SelectSeq(tr, LAMBDA e : e.ev = "ret" /\ e.node = BT_ROOT)
    IN  [ k \in 1..Len(sel) |-> sel[k].val ]

\* C40: in the widget of Widgets/BT_Debugger.py a frame without "Reset Tree" ticks
\* the tree (once) exactly if "Live Tick" is on and `finished` is false.  A frame
\* with "Reset Tree" ticks once at once, whatever "Live Tick" says, and once more
\* exactly if "Live Tick" is on and that tick returned RUNNING.  A tick that
\* returns another state than RUNNING sets `finished` and is the last of its frame;
\* while `finished` is set, a frame without "Reset Tree" ticks nothing and leaves
\* it set.
C40_WidgetTicks ==
    /\ [] ( finished => result \in {SUCCESS, FAILURE} )
    /\ [][ LET p    == WidgetPressed(trace')
               l    == WidgetLive(trace')
               k    == TicksIn(trace')
               rets == RootReturns(trace')
           IN  /\ live_tick' = l
               /\ Len(rets) = k
               /\ ~p => k = (IF l /\ ~finished THEN 1 ELSE 0)
               /\ p => /\ k \in {1, 2}
                       /\ k = 2 <=> (l /\ rets[1] = RUNNING)
               /\ \A j \in 1..(k - 1) : rets[j] = RUNNING
               /\ k >= 1 => /\ result' = rets[k]
                            /\ finished' = (rets[k] # RUNNING)
               /\ k = 0 => /\ finished' = finished
                           /\ node' = node
                           /\ result' = result
               /\ (finished /\ ~p) => (k = 0 /\ finished') ]_vars

\* C40 witness: "Reset Tree" was pressed with "Live Tick" off: the frame ticked
\* once, the tick failed, and `finished` is set.
C40_Witness ==
    /\ trace # <<>>
    /\ trace[1].val = << TRUE, FALSE >>
    /\ ~live_tick
    /\ TicksIn(trace) = 1
    /\ result = FAILURE
    /\ finished
    /\ Len(executed[1]) >= 2


====
